---- MODULE Spec2Model ----
(***************************************************************************)
(* TaskMaster: the entity store (backend/db.sql), the task, comment and    *)
(* notification handlers that work on it, the realtime channel             *)
(* (backend/server.js) and the client store (vitereact/src/store/main.tsx) *)
(* with the views that drive it.                                           *)
(***************************************************************************)
EXTENDS Integers, Sequences, FiniteSets, TLC

\* ------------------------------------------------------------------ bounds
MaxTasks == 2
MaxComments == 2
MaxNotifications == 4
MaxNow == 4
MaxRequests == 3
MaxSockets == 3
MaxAuthRequests == 2

\* ------------------------------------------------------------ basic values
NULL == 0

\* users 1..3 of the users table: one manager, two regular users
Users == {1, 2, 3}
users_role == (1 :> "manager") @@ (2 :> "regular") @@ (3 :> "regular")

TASK_STATUSES == {"To Do", "In Progress", "Done"}
TASK_PRIORITIES == {"Low", "Medium", "High"}

TaskIds == 1..MaxTasks
CommentIds == 1..MaxComments
SocketIds == 1..MaxSockets
RequestIds == 1..MaxAuthRequests

Range(s) == {s[i] : i \in 1..Len(s)}

\* a text is a sequence of characters; trim drops blanks at both ends
RECURSIVE TrimLeft(_)
TrimLeft(s) == IF s # <<>> /\ Head(s) = " " THEN TrimLeft(Tail(s)) ELSE s
RECURSIVE TrimRight(_)
TrimRight(s) ==
  IF s # <<>> /\ s[Len(s)] = " " THEN TrimRight(SubSeq(s, 1, Len(s) - 1)) ELSE s
trim(s) == TrimRight(TrimLeft(s))

VARIABLES
  tasks,            \* tasks table: set of rows
  task_assignees,   \* task_assignees table: rows in insertion order
  task_comments,    \* task_comments table: set of rows
  notifications,    \* notifications table: set of rows
  task_reminders,   \* task_reminders table: set of rows
  ids,              \* ids handed out so far, per table
  now,              \* the server clock
  outbox,           \* notification_created events persisted and not yet emitted
  net,              \* requests, responses and push events in flight
  rid,              \* requests sent so far
  store_notifications,  \* per client: notifications of the store
  store_unread_count,   \* per client: unread_count of the store
  isFetching,           \* per client: the notifications query is in flight
  store_tasks,          \* per client: tasks of the store
  store_task_detail,    \* per client: task_detail of the store
  modal,                \* per client: the task of the open task_detail modal
  detail_form,          \* per client: the detail_* state of GV_GlobalModalWrapper
  editing_fields,       \* per client: is_editing, editing_fields of UV_TaskDetailModal
  edits,                \* per client: the last update of that client the server applied
  task_creation,        \* per client: the task_creation modal is open
  create_form,          \* per client: the create_* state of GV_GlobalModalWrapper
  formFields,           \* per client: formFields of UV_TaskCreationModal
  sockets,          \* per socket id: open, its handshake token, socket.user
  userSocketsMap,   \* user_id -> set of the socket ids connected for that user
  rooms,            \* per user: the socket ids in the room user_<user_id>
  users,            \* users table: set of rows
  password_reset_tokens,  \* password_reset_tokens table: set of rows
  jwts,             \* payloads of the tokens generate_jwt has signed
  requests,         \* per request slot: the auth request under way, its position
  session,              \* per client: user, token, is_authenticated of the store
  store_comments,       \* per client: comments of the store
  bulk_selection,       \* per client: bulk_selection of the store
  connected,            \* per client: connected of the store
  list_mounted,         \* per client: UV_MainTaskList is mounted
  subscribed_task_ids,  \* per client: subscribed_task_ids of the store
  lastOp            \* the request handled by the last step and its outcome

socketVars == <<sockets, userSocketsMap, rooms>>

authVars == <<users, password_reset_tokens, jwts, requests>>

serverVars == <<tasks, task_assignees, task_comments, notifications,
                task_reminders, ids, now, outbox, socketVars, authVars>>

notificationVars == <<store_notifications, store_unread_count, isFetching>>

taskViewVars == <<store_tasks, store_task_detail, modal, detail_form,
                  editing_fields, edits>>

creationVars == <<task_creation, create_form, formFields>>

sessionVars == <<session, store_comments, bulk_selection, connected, list_mounted>>

clientVars == <<net, rid, notificationVars, taskViewVars, creationVars,
                sessionVars, subscribed_task_ids>>

\* the users with a browser session: a manager and a regular user
Clients == {1, 2}

\* =================================================================== store
\* the table without its primary key: every insert adds a row
task_assignees_insert_nokey(rows, row) == Append(rows, row)

\* task_assignees: PRIMARY KEY (task_id, user_id). An insert that repeats a
\* key is refused and leaves the table as it was.
task_assignees_insert(rows, row) ==
  IF \E i \in 1..Len(rows) :
       rows[i].task_id = row.task_id /\ rows[i].user_id = row.user_id
  THEN rows
  ELSE Append(rows, row)

RECURSIVE InsertAssignees(_, _, _, _)
InsertAssignees(rows, t, user_ids, at) ==
  IF user_ids = <<>> THEN rows
  ELSE InsertAssignees(
         task_assignees_insert(rows, [task_id |-> t, user_id |-> Head(user_ids),
                                      assigned_at |-> at]),
         t, Tail(user_ids), at)

\* SELECT user_id FROM task_assignees WHERE task_id = t, one entry per row
AssigneeList(rows, t) ==
  LET of == SelectSeq(rows, LAMBDA r : r.task_id = t)
  IN  [i \in 1..Len(of) |-> of[i].user_id]

AssigneesOf(rows, t) == Range(AssigneeList(rows, t))

\* the self-reference as a cascade: replies go with their parent
task_comments_delete_cascade(rows, gone) ==
  {d \in rows : d.comment_id \notin gone /\ d.parent_comment_id \notin gone}

\* task_comments.parent_comment_id REFERENCES task_comments ON DELETE SET NULL
task_comments_delete(rows, gone) ==
  {[c EXCEPT !.parent_comment_id =
       IF c.parent_comment_id \in gone THEN NULL ELSE c.parent_comment_id]
   : c \in {d \in rows : d.comment_id \notin gone}}

\* ON DELETE CASCADE from tasks(task_id) to task_assignees, task_comments and
\* task_reminders; notifications.reference_id carries no foreign key.
cascade_assignees(rows, t) == SelectSeq(rows, LAMBDA r : r.task_id # t)
\* task_comments.task_id without its cascade
cascade_comments_none(rows, t) == rows

cascade_comments(rows, t) ==
  task_comments_delete(rows, {c.comment_id : c \in {d \in rows : d.task_id = t}})
cascade_reminders(rows, t) == {r \in rows : r.task_id # t}
\* notifications.reference_id as a cascading foreign key to tasks
cascade_notifications_fk(rows, t) == {n \in rows : n.reference_id # t}

cascade_notifications(rows, t) == rows

\* {...t, ...u}: the keys of u with u's values, the other keys of t with t's
Merge(t, u) ==
  [k \in DOMAIN t \cup DOMAIN u |-> IF k \in DOMAIN u THEN u[k] ELSE t[k]]

\* tasks with a default of 'Done' for status
tasks_insert_done(cols) == Merge([priority |-> "Medium", status |-> "Done"], cols)

\* tasks: priority DEFAULT 'Medium', status DEFAULT 'To Do', for the columns an
\* insert does not name
tasks_insert(cols) == Merge([priority |-> "Medium", status |-> "To Do"], cols)

\* task_detail: null
NoTask == [task_id |-> NULL]

\* the form state of a task_detail modal before a task is loaded into it;
\* version and edited record what the form was loaded from and which fields
\* the user changed since
EmptyForm ==
  [loaded |-> FALSE, is_editing |-> FALSE, title |-> <<>>, due_date |-> NULL,
   priority |-> "Medium", status |-> "To Do", assignees |-> <<>>,
   version |-> 0, edited |-> {}]

\* UV_TaskDetailModal: its form state and the data of its task query
EmptyDetail == Merge(EmptyForm, [fetched_task |-> NoTask])

NoEdit == [task |-> NULL]

\* a handshake token: absent, or present with a signature that verifies or
\* does not, and the user_id its payload names
NoToken == [present |-> FALSE, valid |-> FALSE, user_id |-> NULL]

Tokens ==
  {NoToken} \cup
  {[present |-> TRUE, valid |-> v, user_id |-> u] : v \in BOOLEAN, u \in Users}

NoSocket == [open |-> FALSE, token |-> NoToken, user |-> NULL]

\* an e-mail address is a sequence of characters; toLowerCase maps each
\* upper-case letter to its lower-case one
LowerChar(ch) ==
  CASE ch = "A" -> "a" [] ch = "B" -> "b" [] ch = "C" -> "c" [] ch = "D" -> "d"
    [] OTHER -> ch

toLowerCase(s) == [i \in 1..Len(s) |-> LowerChar(s[i])]

\* bcrypt, as the hash that only its own password verifies against
hash_password(plain_password) == [bcrypt |-> plain_password]

verify_password(plain_password, hashed) == hashed.bcrypt = plain_password

\* the users of the seed data: their password_hash is no bcrypt hash
SeedUsers ==
  {[user_id |-> u,
    email |-> IF u = 1 THEN <<"a">> ELSE IF u = 2 THEN <<"b">> ELSE <<"c">>,
    password_hash |-> [bcrypt |-> "seed"], name |-> "seed",
    role |-> users_role[u], created_at |-> 0, updated_at |-> 0,
    notification_settings |-> [in_app |-> TRUE, email |-> FALSE]] : u \in Users}

\* reset tokens as they are handed out for user 2: one to use, one expired
SeedResetTokens ==
  {[token |-> "t1", user_id |-> 2, expires_at |-> MaxNow + 1, used |-> FALSE],
   [token |-> "t0", user_id |-> 2, expires_at |-> 0, used |-> FALSE]}

\* user: null, token: '', is_authenticated: false
NoSession == [user |-> NULL, token |-> "", is_authenticated |-> FALSE]

\* a request slot with no request in it
NoRequest == [pc |-> "idle"]

\* the form of a task_creation modal as it opens
EmptyCreate == [title |-> <<>>, due_date |-> NULL, priority |-> "Medium"]

\* generate_id: an id that was never handed out before
generate_id(counter) == counter + 1

Init ==
  /\ tasks = {}
  /\ task_assignees = <<>>
  /\ task_comments = {}
  /\ notifications = {}
  /\ task_reminders = {}
  /\ ids = [task |-> 0, comment |-> 0, notification |-> 0, reminder |-> 0,
            user |-> Cardinality(Users)]
  /\ now = 0
  /\ outbox = {}
  /\ net = {}
  /\ rid = 0
  /\ store_notifications = [c \in Clients |-> <<>>]
  /\ store_unread_count = [c \in Clients |-> 0]
  /\ isFetching = [c \in Clients |-> FALSE]
  /\ store_tasks = [c \in Clients |-> <<>>]
  /\ store_task_detail = [c \in Clients |-> NoTask]
  /\ modal = [c \in Clients |-> NULL]
  /\ detail_form = [c \in Clients |-> EmptyForm]
  /\ editing_fields = [c \in Clients |-> EmptyDetail]
  /\ edits = [c \in Clients |-> NoEdit]
  /\ sockets = [id \in SocketIds |-> NoSocket]
  /\ userSocketsMap = [u \in {} |-> {}]
  /\ rooms = [u \in Users |-> {}]
  /\ users = SeedUsers
  /\ password_reset_tokens = SeedResetTokens
  /\ jwts = {}
  /\ requests = [r \in RequestIds |-> NoRequest]
  /\ task_creation = [c \in Clients |-> FALSE]
  /\ create_form = [c \in Clients |-> EmptyCreate]
  /\ formFields = [c \in Clients |-> EmptyCreate]
  /\ session = [c \in Clients |-> NoSession]
  /\ store_comments = [c \in Clients |-> <<>>]
  /\ bulk_selection = [c \in Clients |-> <<>>]
  /\ connected = [c \in Clients |-> FALSE]
  /\ list_mounted = [c \in Clients |-> TRUE]
  /\ subscribed_task_ids = [c \in Clients |-> <<>>]
  /\ lastOp = [op |-> "init"]

\* ======================================================= Notification Fan-out
Message(type, title) == [template |-> type, title |-> title]

\* one notification per entry of the affected users other than the actor,
\* persisted with fresh ids
fan_out(counter, type, reference_id, title, actor, affected, at) ==
  LET to == SelectSeq(affected, LAMBDA u : u # actor)
  IN  {[notification_id |-> counter + i, user_id |-> to[i], type |-> type,
        reference_id |-> reference_id, message |-> Message(type, title),
        is_read |-> FALSE, created_at |-> at] : i \in 1..Len(to)}

\* ========================================================= Task Mutation Engine
TaskExists(t) == \E r \in tasks : r.task_id = t
TaskRow(t) == CHOOSE r \in tasks : r.task_id = t

Field(req, k, default) == IF k \in DOMAIN req THEN req[k] ELSE default

PriorityOrDefault(req) ==
  IF "priority" \in DOMAIN req /\ req.priority \in TASK_PRIORITIES
  THEN req.priority ELSE "Medium"

\* offsets of the reminder presets, in clock units
PresetOffset(preset) == IF preset = "1 hour" THEN 1 ELSE 2

\* POST /tasks
CreateTask(creator, req) ==
  /\ now < MaxNow
  /\ ids.task < MaxTasks
  /\ "title" \in DOMAIN req
  /\ trim(req.title) # <<>>
  /\ LET t == generate_id(ids.task)
         at == now + 1
         list == Field(req, "assignees", <<>>)
         due == Field(req, "due_date", NULL)
         after == InsertAssignees(task_assignees, t, list, at)
         created == fan_out(ids.notification, "assignment", t, req.title,
                            creator, AssigneeList(after, t), at)
         reminds == "reminder_preset" \in DOMAIN req /\ due # NULL
     IN  /\ Range(list) \subseteq Users
         /\ ids.notification + Cardinality(created) <= MaxNotifications
         /\ tasks' = tasks \cup
              {tasks_insert(
                 [task_id |-> t, creator_user_id |-> creator, title |-> req.title,
                  due_date |-> due, priority |-> PriorityOrDefault(req),
                  created_at |-> at, updated_at |-> at])}
         /\ task_assignees' = after
         /\ task_reminders' =
              IF reminds
              THEN task_reminders \cup
                     {[reminder_id |-> generate_id(ids.reminder), task_id |-> t,
                       remind_at |-> due - PresetOffset(req.reminder_preset),
                       preset |-> req.reminder_preset, created_at |-> at]}
              ELSE task_reminders
         /\ notifications' = notifications \cup created
         /\ outbox' = outbox \cup created
         /\ ids' = [ids EXCEPT !.task = t,
                               !.notification = @ + Cardinality(created),
                               !.reminder = IF reminds THEN generate_id(@) ELSE @]
         /\ now' = at
         /\ UNCHANGED task_comments
         /\ lastOp' = [op |-> "CreateTask", actor |-> creator, task |-> t, req |-> req]
  /\ UNCHANGED <<socketVars, authVars>>

\* POST /tasks with a title that is missing or empty after trim: 400
CreateTaskRejected(creator, req) ==
  /\ "title" \notin DOMAIN req \/ trim(Field(req, "title", <<>>)) = <<>>
  /\ UNCHANGED serverVars
  /\ lastOp' = [op |-> "ValidationError", of |-> "CreateTask", actor |-> creator,
                req |-> req]

\* a replacement that deletes every assignment of the task first
remove_assignees_all(rows, t, list) == SelectSeq(rows, LAMBDA r : r.task_id # t)

\* replacing the assignee set: the rows of removed members are deleted, the
\* rows of members who stay are untouched
remove_assignees(rows, t, list) ==
  SelectSeq(rows, LAMBDA r : r.task_id # t \/ r.user_id \in Range(list))

UpdatableFields == {"title", "due_date", "priority", "status"}

\* PATCH /tasks/{id}
UpdateTask(t, actor, req) ==
  /\ now < MaxNow
  /\ TaskExists(t)
  /\ "title" \in DOMAIN req => trim(req.title) # <<>>
  /\ LET old == TaskRow(t)
         at == now + 1
         new == [k \in DOMAIN old |->
                   IF k \in UpdatableFields \cap DOMAIN req THEN req[k]
                   ELSE IF k = "updated_at" THEN at
                   ELSE old[k]]
         before == AssigneesOf(task_assignees, t)
         replaces == "assignees" \in DOMAIN req
         list == Field(req, "assignees", <<>>)
         kept == IF replaces THEN remove_assignees(task_assignees, t, list)
                 ELSE task_assignees
         fresh == SelectSeq(list, LAMBDA u : u \notin before)
         after == InsertAssignees(kept, t, fresh, at)
         added == SelectSeq(AssigneeList(after, t), LAMBDA u : u \notin before)
         assigned == fan_out(ids.notification, "assignment", t, new.title,
                             actor, added, at)
         changed == fan_out(ids.notification + Cardinality(assigned),
                            "status_update", t, new.title, actor,
                            IF new.status # old.status
                            THEN AssigneeList(after, t) ELSE <<>>, at)
     IN  /\ Range(list) \subseteq Users
         /\ ids.notification + Cardinality(assigned) + Cardinality(changed)
              <= MaxNotifications
         /\ tasks' = (tasks \ {old}) \cup {new}
         /\ task_assignees' = after
         /\ notifications' = notifications \cup assigned \cup changed
         /\ outbox' = outbox \cup assigned \cup changed
         /\ ids' = [ids EXCEPT !.notification =
                      @ + Cardinality(assigned) + Cardinality(changed)]
         /\ now' = at
         /\ UNCHANGED <<task_comments, task_reminders>>
         /\ lastOp' = [op |-> "UpdateTask", actor |-> actor, task |-> t, req |-> req]
  /\ UNCHANGED <<socketVars, authVars>>

\* PATCH /tasks/{id} of a task that is not there: 404; with a title that is
\* empty after trim: 400
UpdateTaskRejected(t, actor, req) ==
  /\ ~TaskExists(t) \/ ("title" \in DOMAIN req /\ trim(req.title) = <<>>)
  /\ UNCHANGED serverVars
  /\ lastOp' = [op |-> IF TaskExists(t) THEN "ValidationError" ELSE "NotFoundError",
                of |-> "UpdateTask", actor |-> actor, task |-> t, req |-> req]

\* DELETE /tasks/{id}
DeleteTask(t) ==
  /\ now < MaxNow
  /\ TaskExists(t)
  /\ tasks' = tasks \ {TaskRow(t)}
  /\ task_assignees' = cascade_assignees(task_assignees, t)
  /\ task_comments' = cascade_comments(task_comments, t)
  /\ task_reminders' = cascade_reminders(task_reminders, t)
  /\ notifications' = cascade_notifications(notifications, t)
  /\ now' = now + 1
  /\ UNCHANGED <<ids, outbox>>
  /\ lastOp' = [op |-> "DeleteTask", task |-> t]
  /\ UNCHANGED <<socketVars, authVars>>

\* =============================================================== Comment Engine
CommentExists(c) == \E r \in task_comments : r.comment_id = c
CommentRow(c) == CHOOSE r \in task_comments : r.comment_id = c

\* a parent that only has to be there, as the foreign key has it
ParentOk_any_task(t, parent) == parent # NULL => CommentExists(parent)

\* the parent of a new comment, when given, is a comment of the same task
ParentOk(t, parent) ==
  parent # NULL => CommentExists(parent) /\ CommentRow(parent).task_id = t

\* POST /tasks/{id}/comments
AddComment(t, author, body, parent) ==
  /\ now < MaxNow
  /\ ids.comment < MaxComments
  /\ TaskExists(t)
  /\ trim(body) # <<>>
  /\ ParentOk(t, parent)
  /\ LET c == generate_id(ids.comment)
         at == now + 1
         task == TaskRow(t)
         created == fan_out(ids.notification, "comment", c, task.title, author,
                            <<task.creator_user_id>> \o
                              SelectSeq(AssigneeList(task_assignees, t),
                                        LAMBDA u : u # task.creator_user_id),
                            at)
     IN  /\ ids.notification + Cardinality(created) <= MaxNotifications
         /\ task_comments' = task_comments \cup
              {[comment_id |-> c, task_id |-> t, author_user_id |-> author,
                body |-> body, created_at |-> at, updated_at |-> NULL,
                parent_comment_id |-> parent]}
         /\ notifications' = notifications \cup created
         /\ outbox' = outbox \cup created
         /\ ids' = [ids EXCEPT !.comment = c,
                               !.notification = @ + Cardinality(created)]
         /\ now' = at
         /\ UNCHANGED <<tasks, task_assignees, task_reminders>>
         /\ lastOp' = [op |-> "AddComment", actor |-> author, task |-> t,
                       comment |-> c]
  /\ UNCHANGED <<socketVars, authVars>>

\* POST /tasks/{id}/comments with a parent that is missing or on another
\* task: 400
AddCommentRejected(t, author, body, parent) ==
  /\ TaskExists(t)
  /\ ~ParentOk(t, parent)
  /\ UNCHANGED serverVars
  /\ lastOp' = [op |-> "ValidationError", of |-> "AddComment", actor |-> author,
                task |-> t, parent |-> parent]

\* a rule that lets every user change every comment
MayChangeComment_anyone(c, actor) == actor \in Users

\* the actor is the author of the comment or holds the manager role
MayChangeComment(c, actor) ==
  CommentRow(c).author_user_id = actor \/ users_role[actor] = "manager"

\* PATCH /comments/{id}
EditComment(c, actor, newBody) ==
  /\ now < MaxNow
  /\ CommentExists(c)
  /\ MayChangeComment(c, actor)
  /\ trim(newBody) # <<>>
  /\ task_comments' = (task_comments \ {CommentRow(c)}) \cup
       {[CommentRow(c) EXCEPT !.body = newBody, !.updated_at = now + 1]}
  /\ now' = now + 1
  /\ UNCHANGED <<tasks, task_assignees, task_reminders, notifications, ids, outbox>>
  /\ lastOp' = [op |-> "EditComment", actor |-> actor, comment |-> c]
  /\ UNCHANGED <<socketVars, authVars>>

\* PATCH or DELETE /comments/{id} by an actor who may not change it: 403
CommentForbidden(c, actor, of) ==
  /\ CommentExists(c)
  /\ ~MayChangeComment(c, actor)
  /\ UNCHANGED serverVars
  /\ lastOp' = [op |-> "ForbiddenError", of |-> of, actor |-> actor, comment |-> c]

\* DELETE /comments/{id}
DeleteComment(c, actor) ==
  /\ now < MaxNow
  /\ CommentExists(c)
  /\ MayChangeComment(c, actor)
  /\ task_comments' = task_comments_delete(task_comments, {c})
  /\ now' = now + 1
  /\ UNCHANGED <<tasks, task_assignees, task_reminders, notifications, ids, outbox>>
  /\ lastOp' = [op |-> "DeleteComment", actor |-> actor, comment |-> c,
                replies |-> {r.comment_id : r \in {k \in task_comments :
                                                     k.parent_comment_id = c}}]
  /\ UNCHANGED <<socketVars, authVars>>

\* ================================================================ socket.io
\* Map.prototype.set and Map.prototype.delete
MapSet(map, key, value) ==
  [k \in DOMAIN map \cup {key} |-> IF k = key THEN value ELSE map[k]]

MapDelete(map, key) == [k \in DOMAIN map \ {key} |-> map[k]]

\* a middleware that reads the payload of the token without verifying it
io_use_decode(token) == IF token.present THEN token.user_id ELSE NULL

\* io.use: the user of the token, NULL when next() is called with an error
io_use(token) ==
  IF ~token.present THEN NULL
  ELSE IF token.valid THEN token.user_id
  ELSE NULL

\* a disconnect handler that drops the entry of the user
on_disconnect_delete(map, user, id) == MapDelete(map, user)

\* a disconnect handler that keeps the entry of the user when it is empty
on_disconnect_keep(map, user, id) ==
  IF user \in DOMAIN map THEN MapSet(map, user, map[user] \ {id}) ELSE map

\* a disconnect handler that only looks after the last socket of a user
on_disconnect_last(map, user, id) ==
  IF user \in DOMAIN map /\ map[user] \ {id} = {} THEN MapDelete(map, user) ELSE map

\* socket.on('disconnect'): the socket id leaves the set of its user, and the
\* entry goes when the set is empty
on_disconnect(map, user, id) ==
  IF user \in DOMAIN map
  THEN LET sockets_ == map[user] \ {id}
       IN  IF sockets_ = {} THEN MapDelete(map, user)
           ELSE MapSet(map, user, sockets_)
  ELSE map

\* a connection attempt with a socket id not in use: io.use, then
\* io.on('connection') tracks the socket and joins the room of its user
connection(id, token) ==
  /\ ~sockets[id].open
  /\ LET user == io_use(token)
     IN  /\ sockets' = [sockets EXCEPT ![id] =
               IF user = NULL THEN NoSocket
               ELSE [open |-> TRUE, token |-> token, user |-> user]]
         /\ userSocketsMap' =
              IF user = NULL THEN userSocketsMap
              ELSE MapSet(userSocketsMap, user,
                          (IF user \in DOMAIN userSocketsMap
                           THEN userSocketsMap[user] ELSE {}) \cup {id})
         /\ rooms' = IF user = NULL THEN rooms
                     ELSE [rooms EXCEPT ![user] = @ \cup {id}]
         /\ lastOp' = [op |-> IF user = NULL THEN "connect_error" ELSE "connection",
                       socket |-> id, token |-> token, user |-> user]
  /\ UNCHANGED <<tasks, task_assignees, task_comments, notifications,
                 task_reminders, ids, now, outbox, authVars, clientVars>>

\* the socket closes: it leaves its rooms and its disconnect handler runs
disconnect(id) ==
  /\ sockets[id].open
  /\ sockets' = [sockets EXCEPT ![id] = NoSocket]
  /\ rooms' = [u \in DOMAIN rooms |-> rooms[u] \ {id}]
  /\ userSocketsMap' = on_disconnect(userSocketsMap, sockets[id].user, id)
  /\ UNCHANGED <<tasks, task_assignees, task_comments, notifications,
                 task_reminders, ids, now, outbox, authVars, clientVars>>
  /\ lastOp' = [op |-> "disconnect", socket |-> id, user |-> sockets[id].user]

\* ============================================================== middlewares
roleHierarchy == <<"regular", "manager", "admin">>

\* Array.prototype.indexOf, counting from 0; -1 when the value is not there
indexOf(array, value) ==
  IF \E i \in 1..Len(array) : array[i] = value
  THEN (CHOOSE i \in 1..Len(array) :
          array[i] = value /\ \A j \in 1..(i - 1) : array[j] # value) - 1
  ELSE -1

\* a request that no authentication middleware attached a user to
NoReqUser == [attached |-> FALSE, user_id |-> NULL, role |-> ""]

\* require_manager_role: "next" when next() is called, otherwise the status
\* of the answer
require_manager_role(req_user) ==
  IF ~req_user.attached THEN "401"
  ELSE LET userRoleIndex == indexOf(roleHierarchy, req_user.role)
           managerRoleIndex == indexOf(roleHierarchy, "manager")
       IN  IF userRoleIndex < managerRoleIndex \/ userRoleIndex = -1
           THEN "403"
           ELSE "next"

\* a request reaches the manager guard
manager_guard(req_user) ==
  /\ lastOp' = [op |-> "require_manager_role", user |-> req_user,
                result |-> require_manager_role(req_user)]
  /\ UNCHANGED <<serverVars, clientVars>>

\* ============================================================== auth routes
UserExists(u) == \E row \in users : row.user_id = u
UserRow(u) == CHOOSE row \in users : row.user_id = u

\* a field of a request body that is there and truthy: not the empty string
Given(body, k) ==
  k \in DOMAIN body /\ body[k] # (IF k = "email" THEN <<>> ELSE "")

\* users: user_id PRIMARY KEY, email UNIQUE. An insert that repeats either
\* raises an error and leaves the table as it was.
users_insert(rows, row) ==
  IF \E old \in rows : old.user_id = row.user_id \/ old.email = row.email
  THEN rows
  ELSE rows \cup {row}

\* generate_jwt: the payload of the token
generate_jwt(user) == [user_id |-> user.user_id, role |-> user.role]

\* POST /api/auth/register up to its SELECT: 400 when a field is missing or
\* the email is registered, otherwise the request goes on to its INSERT
register(r, body) ==
  /\ requests[r].pc = "idle"
  /\ LET complete == Given(body, "email") /\ Given(body, "password")
                       /\ Given(body, "name")
         existing == {row \in users : complete /\ row.email = toLowerCase(body.email)}
         goes_on == complete /\ existing = {}
     IN  /\ requests' = [requests EXCEPT ![r] =
               IF goes_on
               THEN [pc |-> "register_insert", email |-> body.email,
                     password |-> body.password, name |-> body.name]
               ELSE NoRequest]
         /\ lastOp' = IF goes_on
                      THEN [op |-> "register_select", request |-> r, body |-> body]
                      ELSE [op |-> "register", request |-> r, status |-> 400,
                            email |-> IF complete THEN body.email ELSE <<>>,
                            registered |-> existing # {}, created |-> NULL]
  /\ UNCHANGED <<tasks, task_assignees, task_comments, notifications,
                 task_reminders, ids, now, outbox, socketVars, users,
                 password_reset_tokens, jwts, clientVars>>

\* the INSERT of POST /api/auth/register and the response: the error of a
\* refused insert is caught and answered with 500
register_insert(r) ==
  /\ requests[r].pc = "register_insert"
  /\ now < MaxNow
  /\ LET req == requests[r]
         user_id == generate_id(ids.user)
         row == [user_id |-> user_id, email |-> toLowerCase(req.email),
                 password_hash |-> hash_password(req.password), name |-> req.name,
                 role |-> "regular", created_at |-> now + 1, updated_at |-> now + 1,
                 notification_settings |-> [in_app |-> TRUE, email |-> FALSE]]
         after == users_insert(users, row)
         inserted == row \in after
     IN  /\ users' = after
         /\ ids' = [ids EXCEPT !.user = user_id]
         /\ now' = now + 1
         /\ jwts' = IF inserted
                    THEN jwts \cup {generate_jwt([user_id |-> user_id, role |-> "regular"])}
                    ELSE jwts
         /\ lastOp' = [op |-> "register", request |-> r,
                       status |-> IF inserted THEN 200 ELSE 500,
                       email |-> req.email,
                       registered |-> \E old \in users : old.email = row.email,
                       created |-> IF inserted THEN user_id ELSE NULL]
  /\ requests' = [requests EXCEPT ![r] = NoRequest]
  /\ UNCHANGED <<tasks, task_assignees, task_comments, notifications,
                 task_reminders, outbox, socketVars, password_reset_tokens,
                 clientVars>>

\* SELECT ... FROM password_reset_tokens WHERE token = $1
TokenRows(token) == {row \in password_reset_tokens : row.token = token}

\* UPDATE users SET ... WHERE user_id = $n: the rows with the columns of the
\* SET clause replaced
users_update(rows, user_id, set) ==
  {IF row.user_id = user_id THEN Merge(row, set) ELSE row : row \in rows}

\* POST /api/auth/password-reset up to its checks of the token: 400 when a
\* field is missing, no row has the token, the row is used or it is expired;
\* otherwise the request goes on to hash the password and update the user
password_reset(r, body) ==
  /\ requests[r].pc = "idle"
  /\ LET complete == Given(body, "token") /\ Given(body, "password")
         found == IF complete THEN TokenRows(body.token) ELSE {}
         goes_on == \E tokenRow \in found :
                      ~tokenRow.used /\ ~(tokenRow.expires_at < now)
     IN  /\ requests' = [requests EXCEPT ![r] =
               IF goes_on
               THEN [pc |-> "reset_update_user", token |-> body.token,
                     password |-> body.password,
                     user_id |-> (CHOOSE tokenRow \in found : TRUE).user_id]
               ELSE NoRequest]
         /\ lastOp' = IF goes_on
                      THEN [op |-> "password_reset_select", request |-> r,
                            body |-> body]
                      ELSE [op |-> "password_reset", request |-> r, status |-> 400,
                            token |-> IF complete THEN body.token ELSE "",
                            used |-> \E tokenRow \in found : tokenRow.used]
  /\ UNCHANGED <<tasks, task_assignees, task_comments, notifications,
                 task_reminders, ids, now, outbox, socketVars, users,
                 password_reset_tokens, jwts, clientVars>>

\* the new hash is there: UPDATE users SET password_hash, updated_at; 400
\* when no row has the user_id of the token
reset_update_user(r) ==
  /\ requests[r].pc = "reset_update_user"
  /\ now < MaxNow
  /\ LET req == requests[r]
         found == UserExists(req.user_id)
     IN  /\ users' = users_update(users, req.user_id,
                                  [password_hash |-> hash_password(req.password),
                                   updated_at |-> now + 1])
         /\ requests' = [requests EXCEPT ![r] =
               IF found THEN [req EXCEPT !.pc = "reset_mark_used"] ELSE NoRequest]
         /\ lastOp' = IF found
                      THEN [op |-> "password_reset_update", request |-> r,
                            token |-> req.token]
                      ELSE [op |-> "password_reset", request |-> r, status |-> 400,
                            token |-> req.token, used |-> FALSE]
  /\ now' = now + 1
  /\ UNCHANGED <<tasks, task_assignees, task_comments, notifications,
                 task_reminders, ids, outbox, socketVars, password_reset_tokens,
                 jwts, clientVars>>

\* UPDATE password_reset_tokens SET used = true, and the answer
reset_mark_used(r) ==
  /\ requests[r].pc = "reset_mark_used"
  /\ password_reset_tokens' =
       {IF row.token = requests[r].token THEN [row EXCEPT !.used = TRUE] ELSE row
        : row \in password_reset_tokens}
  /\ requests' = [requests EXCEPT ![r] = NoRequest]
  /\ lastOp' = [op |-> "password_reset", request |-> r, status |-> 200,
                token |-> requests[r].token,
                used |-> \E row \in TokenRows(requests[r].token) : row.used]
  /\ UNCHANGED <<tasks, task_assignees, task_comments, notifications,
                 task_reminders, ids, now, outbox, socketVars, users, jwts,
                 clientVars>>

\* POST /api/auth/login: 400 when a field is missing, 401 when no user has the
\* address or the password does not verify, otherwise a token for the user
\* with the role of its row
login(body) ==
  /\ LET complete == Given(body, "email") /\ Given(body, "password")
         found == IF complete
                  THEN {row \in users : row.email = toLowerCase(body.email)}
                  ELSE {}
         valid == {row \in found : verify_password(body.password, row.password_hash)}
     IN  /\ jwts' = jwts \cup {generate_jwt(row) : row \in valid}
         /\ lastOp' = [op |-> "login",
                       status |-> IF ~complete THEN 400
                                  ELSE IF valid = {} THEN 401 ELSE 200,
                       users |-> {row.user_id : row \in valid}]
  /\ UNCHANGED <<tasks, task_assignees, task_comments, notifications,
                 task_reminders, ids, now, outbox, socketVars, users,
                 password_reset_tokens, requests, clientVars>>

\* an update that takes every column the body names
patch_fields_all(body, updated_at) ==
  Merge([k \in DOMAIN body \cap {"user_id", "email", "name", "role",
                                 "notification_settings"} |->
           IF k = "email" THEN toLowerCase(body[k]) ELSE body[k]],
        [updated_at |-> updated_at])

\* the SET clause of PATCH /api/users/me: of the body only name, email,
\* password and notification_settings are looked at
patch_fields(body, updated_at) ==
  Merge(Merge(Merge(Merge(
    IF Given(body, "name") THEN [name |-> body.name] ELSE <<>>,
    IF Given(body, "email") THEN [email |-> toLowerCase(body.email)] ELSE <<>>),
    IF Given(body, "password")
    THEN [password_hash |-> hash_password(body.password)] ELSE <<>>),
    IF "notification_settings" \in DOMAIN body
    THEN [notification_settings |-> body.notification_settings] ELSE <<>>),
    [updated_at |-> updated_at])

\* notification_settings of a body: an object with booleans in_app and email
ValidSettings(notification_settings) ==
  /\ {"in_app", "email"} \subseteq DOMAIN notification_settings
  /\ notification_settings.in_app \in BOOLEAN
  /\ notification_settings.email \in BOOLEAN

\* PATCH /api/users/me of the user of a verified token, up to its SELECT: 400
\* when the body has none of the four fields, the settings are malformed or
\* another user has the address; otherwise the request goes on to its UPDATE
patch_me(r, req_user, body) ==
  /\ requests[r].pc = "idle"
  /\ LET nothing == /\ ~Given(body, "name") /\ ~Given(body, "email")
                    /\ ~Given(body, "password")
                    /\ "notification_settings" \notin DOMAIN body
         malformed == /\ "notification_settings" \in DOMAIN body
                      /\ ~ValidSettings(body.notification_settings)
         in_use == /\ Given(body, "email")
                   /\ \E row \in users : /\ row.email = toLowerCase(body.email)
                                         /\ row.user_id # req_user.user_id
         goes_on == ~nothing /\ ~malformed /\ ~in_use
     IN  /\ requests' = [requests EXCEPT ![r] =
               IF goes_on
               THEN [pc |-> "patch_update", user_id |-> req_user.user_id,
                     body |-> body]
               ELSE NoRequest]
         /\ lastOp' = IF goes_on
                      THEN [op |-> "patch_me_select", request |-> r,
                            user |-> req_user.user_id, body |-> body]
                      ELSE [op |-> "patch_me", request |-> r, status |-> 400,
                            user |-> req_user.user_id, body |-> body]
  /\ UNCHANGED <<tasks, task_assignees, task_comments, notifications,
                 task_reminders, ids, now, outbox, socketVars, users,
                 password_reset_tokens, jwts, clientVars>>

\* the UPDATE of PATCH /api/users/me and the response: 404 when no row has
\* the user_id of the token, 500 when the address breaks UNIQUE
patch_update(r) ==
  /\ requests[r].pc = "patch_update"
  /\ now < MaxNow
  /\ LET req == requests[r]
         set == patch_fields(req.body, now + 1)
         found == UserExists(req.user_id)
         refused == /\ found
                    /\ "email" \in DOMAIN set
                    /\ \E row \in users : /\ row.user_id # req.user_id
                                          /\ row.email = set.email
     IN  /\ users' = IF refused THEN users
                     ELSE users_update(users, req.user_id, set)
         /\ lastOp' = [op |-> "patch_me", request |-> r,
                       status |-> IF ~found THEN 404
                                  ELSE IF refused THEN 500 ELSE 200,
                       user |-> req.user_id, body |-> req.body]
  /\ now' = now + 1
  /\ requests' = [requests EXCEPT ![r] = NoRequest]
  /\ UNCHANGED <<tasks, task_assignees, task_comments, notifications,
                 task_reminders, ids, outbox, socketVars, password_reset_tokens,
                 jwts, clientVars>>

vars == <<serverVars, clientVars, lastOp>>

\* ================================================== notification read state
\* the notification as the client sees it
ToClient(n) ==
  [notification_id |-> n.notification_id, type |-> n.type, message |-> n.message,
   reference_id |-> n.reference_id, created_at |-> n.created_at,
   is_read |-> n.is_read]

RECURSIVE NewestFirst(_)
NewestFirst(rows) ==
  IF rows = {} THEN <<>>
  ELSE LET n == CHOOSE x \in rows :
                  \A y \in rows : y.notification_id <= x.notification_id
       IN  <<ToClient(n)>> \o NewestFirst(rows \ {n})

\* GET /notifications
ListNotifications(rows, user) == NewestFirst({n \in rows : n.user_id = user})

\* PATCH /notifications/{id}/read
MarkRead(rows, user, id) ==
  {IF n.notification_id = id /\ n.user_id = user
   THEN [n EXCEPT !.is_read = TRUE] ELSE n : n \in rows}

\* PATCH /notifications/mark_all_read
MarkAllRead(rows, user) ==
  {IF n.user_id = user THEN [n EXCEPT !.is_read = TRUE] ELSE n : n \in rows}

\* ============================================================= Realtime Channel
\* a persisted notification_created event is emitted to the room of its user;
\* it reaches the user's client or is lost
EmitPush(n, reaches) ==
  /\ n \in outbox
  /\ outbox' = outbox \ {n}
  /\ reaches => n.user_id \in Clients
  /\ net' = IF reaches
            THEN net \cup {[kind |-> "notification_created",
                            client |-> n.user_id, notification |-> ToClient(n)]}
            ELSE net
  /\ UNCHANGED <<tasks, task_assignees, task_comments, notifications,
                 task_reminders, ids, now, rid, notificationVars>>
  /\ UNCHANGED taskViewVars
  /\ UNCHANGED creationVars
  /\ lastOp' = [op |-> "EmitPush", notification |-> n.notification_id,
                user |-> n.user_id, reached |-> reaches]
  /\ UNCHANGED <<socketVars, authVars>>
  /\ UNCHANGED <<sessionVars, subscribed_task_ids>>

\* ================================================= client store: notifications
Unread(list) == Cardinality({i \in 1..Len(list) : ~list[i].is_read})

NotificationsState(c) ==
  [notifications |-> store_notifications[c], unread_count |-> store_unread_count[c]]

\* an add that does not look for the id
add_notification_always(state, notification) ==
  [notifications |-> <<notification>> \o state.notifications,
   unread_count |-> IF notification.is_read THEN state.unread_count
                    ELSE state.unread_count + 1]

add_notification(state, notification) ==
  IF \E i \in 1..Len(state.notifications) :
       state.notifications[i].notification_id = notification.notification_id
  THEN state
  ELSE [notifications |-> <<notification>> \o state.notifications,
        unread_count |-> IF notification.is_read THEN state.unread_count
                         ELSE state.unread_count + 1]

\* a store that leaves its list as it is when a fetched list arrives
set_notifications_ignored(state, list) == state

\* set_notifications: the fetched list replaces the list of the store
set_notifications(state, list) ==
  [notifications |-> list, unread_count |-> Unread(list)]

\* marking counts the unread down instead of counting them again
mark_as_read_counting_down(state, notification_id) ==
  [notifications |->
     [i \in 1..Len(state.notifications) |->
        IF state.notifications[i].notification_id = notification_id
        THEN [state.notifications[i] EXCEPT !.is_read = TRUE]
        ELSE state.notifications[i]],
   unread_count |-> IF state.unread_count > 0 THEN state.unread_count - 1 ELSE 0]

mark_as_read(state, notification_id) ==
  LET newNotifications ==
        [i \in 1..Len(state.notifications) |->
           IF state.notifications[i].notification_id = notification_id
           THEN [state.notifications[i] EXCEPT !.is_read = TRUE]
           ELSE state.notifications[i]]
  IN  [notifications |-> newNotifications, unread_count |-> Unread(newNotifications)]

\* marking all without setting the count
mark_all_as_read_keep_count(state) ==
  [notifications |-> [i \in 1..Len(state.notifications) |->
                        [state.notifications[i] EXCEPT !.is_read = TRUE]],
   unread_count |-> state.unread_count]

mark_all_as_read(state) ==
  [notifications |-> [i \in 1..Len(state.notifications) |->
                        [state.notifications[i] EXCEPT !.is_read = TRUE]],
   unread_count |-> 0]

SetNotificationsState(c, state) ==
  /\ store_notifications' = [store_notifications EXCEPT ![c] = state.notifications]
  /\ store_unread_count' = [store_unread_count EXCEPT ![c] = state.unread_count]

\* the socket hands a pushed notification to the store
PushReceived(m) ==
  /\ m \in net
  /\ m.kind = "notification_created"
  /\ net' = net \ {m}
  /\ SetNotificationsState(m.client,
                           add_notification(NotificationsState(m.client), m.notification))
  /\ UNCHANGED <<serverVars, rid, isFetching>>
  /\ UNCHANGED taskViewVars
  /\ UNCHANGED creationVars
  /\ lastOp' = [op |-> "PushReceived", client |-> m.client,
                notification |-> m.notification.notification_id]
  /\ UNCHANGED <<sessionVars, subscribed_task_ids>>

\* ======================================================== GV_NotificationCenter
\* refetch(): GET /notifications; one fetch of the query at a time
refetch(c, request) ==
  /\ ~isFetching[c]
  /\ isFetching' = [isFetching EXCEPT ![c] = TRUE]
  /\ net' = net \cup {[kind |-> "GET notifications", client |-> c, rid |-> request]}
  /\ UNCHANGED <<serverVars, store_notifications, store_unread_count>>
  /\ UNCHANGED taskViewVars
  /\ UNCHANGED creationVars
  /\ lastOp' = [op |-> "Refetch", client |-> c]
  /\ UNCHANGED <<sessionVars, subscribed_task_ids>>

\* refetch(), on mount and every 60 seconds, as one of the requests counted
Refetch(c) ==
  /\ rid < MaxRequests
  /\ rid' = rid + 1
  /\ refetch(c, rid + 1)

\* the interval of the mounted notification center: refetch() every 60
\* seconds, for as long as it is mounted
IntervalRefetch(c) ==
  /\ refetch(c, 0)
  /\ UNCHANGED rid

ServeListNotifications(m) ==
  /\ m \in net
  /\ m.kind = "GET notifications"
  /\ net' = (net \ {m}) \cup
              {[kind |-> "notifications", client |-> m.client, rid |-> m.rid,
                data |-> ListNotifications(notifications, m.client)]}
  /\ UNCHANGED <<serverVars, rid, notificationVars>>
  /\ UNCHANGED taskViewVars
  /\ UNCHANGED creationVars
  /\ lastOp' = [op |-> "ServeListNotifications", client |-> m.client]
  /\ UNCHANGED <<sessionVars, subscribed_task_ids>>

\* the query function, once the response is there
FetchDone(m) ==
  /\ m \in net
  /\ m.kind = "notifications"
  /\ net' = net \ {m}
  /\ SetNotificationsState(m.client, set_notifications(NotificationsState(m.client), m.data))
  /\ isFetching' = [isFetching EXCEPT ![m.client] = FALSE]
  /\ UNCHANGED <<serverVars, rid>>
  /\ UNCHANGED taskViewVars
  /\ UNCHANGED creationVars
  /\ lastOp' = [op |-> "FetchDone", client |-> m.client]
  /\ UNCHANGED <<sessionVars, subscribed_task_ids>>

IsShownUnread(c, id) ==
  \E i \in 1..Len(store_notifications[c]) :
    /\ store_notifications[c][i].notification_id = id
    /\ ~store_notifications[c][i].is_read

IsShownRead(c, id) ==
  \E i \in 1..Len(store_notifications[c]) :
    /\ store_notifications[c][i].notification_id = id
    /\ store_notifications[c][i].is_read

\* onNotificationClick on a listed unread notification: markAsReadMutation.mutate
ClickNotification(c, id) ==
  /\ ~isFetching[c]
  /\ IsShownUnread(c, id)
  /\ rid < MaxRequests
  /\ rid' = rid + 1
  /\ net' = net \cup {[kind |-> "PATCH read", client |-> c, rid |-> rid + 1,
                       notification_id |-> id]}
  /\ UNCHANGED <<serverVars, notificationVars>>
  /\ UNCHANGED taskViewVars
  /\ UNCHANGED creationVars
  /\ lastOp' = [op |-> "ClickNotification", client |-> c, notification |-> id]
  /\ UNCHANGED <<sessionVars, subscribed_task_ids>>

ServeMarkRead(m) ==
  /\ m \in net
  /\ m.kind = "PATCH read"
  /\ notifications' = MarkRead(notifications, m.client, m.notification_id)
  /\ net' = (net \ {m}) \cup
              {[kind |-> "read", client |-> m.client, rid |-> m.rid,
                notification_id |-> m.notification_id]}
  /\ UNCHANGED <<tasks, task_assignees, task_comments, task_reminders, ids, now,
                 outbox, rid, notificationVars>>
  /\ UNCHANGED taskViewVars
  /\ UNCHANGED creationVars
  /\ lastOp' = [op |-> "ServeMarkRead", client |-> m.client,
                notification |-> m.notification_id]
  /\ UNCHANGED <<socketVars, authVars>>
  /\ UNCHANGED <<sessionVars, subscribed_task_ids>>

\* markAsReadMutation.onSuccess
MarkReadDone(m) ==
  /\ m \in net
  /\ m.kind = "read"
  /\ net' = net \ {m}
  /\ SetNotificationsState(m.client,
                           mark_as_read(NotificationsState(m.client), m.notification_id))
  /\ UNCHANGED <<serverVars, rid, isFetching>>
  /\ UNCHANGED taskViewVars
  /\ UNCHANGED creationVars
  /\ lastOp' = [op |-> "MarkReadDone", client |-> m.client,
                notification |-> m.notification_id,
                was_read |-> IsShownRead(m.client, m.notification_id)]
  /\ UNCHANGED <<sessionVars, subscribed_task_ids>>

\* onClearAllClick: markAllAsReadMutation.mutate, unless one is under way
ClickClearAll(c) ==
  /\ store_notifications[c] # <<>>
  /\ ~\E m \in net : m.client = c /\ m.kind \in {"PATCH mark_all_read", "all read"}
  /\ rid < MaxRequests
  /\ rid' = rid + 1
  /\ net' = net \cup {[kind |-> "PATCH mark_all_read", client |-> c, rid |-> rid + 1]}
  /\ UNCHANGED <<serverVars, notificationVars>>
  /\ UNCHANGED taskViewVars
  /\ UNCHANGED creationVars
  /\ lastOp' = [op |-> "ClickClearAll", client |-> c]
  /\ UNCHANGED <<sessionVars, subscribed_task_ids>>

ServeMarkAllRead(m) ==
  /\ m \in net
  /\ m.kind = "PATCH mark_all_read"
  /\ notifications' = MarkAllRead(notifications, m.client)
  /\ net' = (net \ {m}) \cup
              {[kind |-> "all read", client |-> m.client, rid |-> m.rid,
                count |-> Cardinality({n \in notifications :
                                         n.user_id = m.client /\ ~n.is_read})]}
  /\ UNCHANGED <<tasks, task_assignees, task_comments, task_reminders, ids, now,
                 outbox, rid, notificationVars>>
  /\ UNCHANGED taskViewVars
  /\ UNCHANGED creationVars
  /\ lastOp' = [op |-> "ServeMarkAllRead", client |-> m.client]
  /\ UNCHANGED <<socketVars, authVars>>
  /\ UNCHANGED <<sessionVars, subscribed_task_ids>>

\* markAllAsReadMutation.onSuccess
MarkAllReadDone(m) ==
  /\ m \in net
  /\ m.kind = "all read"
  /\ net' = net \ {m}
  /\ SetNotificationsState(m.client, mark_all_as_read(NotificationsState(m.client)))
  /\ UNCHANGED <<serverVars, rid, isFetching>>
  /\ UNCHANGED taskViewVars
  /\ UNCHANGED creationVars
  /\ lastOp' = [op |-> "MarkAllReadDone", client |-> m.client]
  /\ UNCHANGED <<sessionVars, subscribed_task_ids>>

\* ======================================================= tasks as clients see them
\* Task: the row with its assignees (description and tags, which no operation
\* here tells from the title, are left out of the rows)
TaskOf(rows, assignments, t) ==
  LET r == CHOOSE x \in rows : x.task_id = t
      list == AssigneeList(assignments, t)
  IN  Merge(r, [assignees |-> [i \in 1..Len(list) |-> [user_id |-> list[i]]]])

RECURSIVE CommentsOf(_, _)
CommentsOf(rows, t) ==
  LET of == {c \in rows : c.task_id = t}
  IN  IF of = {} THEN <<>>
      ELSE LET c == CHOOSE x \in of : \A y \in of : x.comment_id <= y.comment_id
           IN  <<c>> \o CommentsOf(rows \ {c}, t)

\* GET /tasks/{id}: Task+assignees+comments
GetTask(t) ==
  Merge(TaskOf(tasks, task_assignees, t),
        [comments |-> CommentsOf(task_comments, t)])

\* GET /tasks: the tasks, in the order of their ids
ListTasks ==
  LET known == {r.task_id : r \in tasks}
      listed == SelectSeq([i \in 1..ids.task |-> i], LAMBDA t : t \in known)
  IN  [i \in 1..Len(listed) |-> TaskOf(tasks, task_assignees, listed[i])]

\* ======================================================== client store: tasks
TasksState(c) == [tasks |-> store_tasks[c], task_detail |-> store_task_detail[c]]

\* the task of the update put in the place of the one in the store
update_task_replace(state, taskUpdate) ==
  [tasks |-> [i \in 1..Len(state.tasks) |->
                IF state.tasks[i].task_id = taskUpdate.task_id
                THEN taskUpdate ELSE state.tasks[i]],
   task_detail |->
     IF state.task_detail.task_id # NULL
          /\ state.task_detail.task_id = taskUpdate.task_id
     THEN taskUpdate ELSE state.task_detail]

update_task(state, taskUpdate) ==
  [tasks |-> [i \in 1..Len(state.tasks) |->
                IF state.tasks[i].task_id = taskUpdate.task_id
                THEN Merge(state.tasks[i], taskUpdate) ELSE state.tasks[i]],
   task_detail |->
     IF state.task_detail.task_id # NULL
          /\ state.task_detail.task_id = taskUpdate.task_id
     THEN Merge(state.task_detail, taskUpdate) ELSE state.task_detail]

SetTasksState(c, state) ==
  /\ store_tasks' = [store_tasks EXCEPT ![c] = state.tasks]
  /\ store_task_detail' = [store_task_detail EXCEPT ![c] = state.task_detail]

\* ================================================== client store: websocket
includes(array, value) == \E i \in 1..Len(array) : array[i] = value

subscribe_task_id(current, task_id) ==
  IF ~includes(current, task_id) THEN Append(current, task_id) ELSE current

unsubscribe_task_id(current, task_id) ==
  IF includes(current, task_id)
  THEN SelectSeq(current, LAMBDA id : id # task_id)
  ELSE current

\* tasks.forEach(task => subscribe_task_id(task.task_id))
RECURSIVE subscribe_each(_, _)
subscribe_each(current, list) ==
  IF list = <<>> THEN current
  ELSE subscribe_each(subscribe_task_id(current, Head(list).task_id), Tail(list))

\* tasks.forEach(task => unsubscribe_task_id(task.task_id))
RECURSIVE unsubscribe_each(_, _)
unsubscribe_each(current, list) ==
  IF list = <<>> THEN current
  ELSE unsubscribe_each(unsubscribe_task_id(current, Head(list).task_id), Tail(list))

\* the effect without the function it returns for its cleanup
useEffect_no_cleanup(current, was, is) ==
  IF is.mounted /\ is.connected THEN subscribe_each(current, is.tasks) ELSE current

\* the effect of UV_MainTaskList on [tasks, connected], run after a step that
\* changes one of them, mounts the view or unmounts it: the cleanup of the
\* run before, which is there when that run found the socket connected, and
\* then the run on the new values
useEffect_live_updates(current, was, is) ==
  LET cleaned == IF was.mounted /\ was.connected
                 THEN unsubscribe_each(current, was.tasks) ELSE current
  IN  IF is.mounted /\ is.connected
      THEN subscribe_each(cleaned, is.tasks) ELSE cleaned

\* what the effect of a client depends on
Rendered(c) ==
  [mounted |-> list_mounted[c], connected |-> connected[c], tasks |-> store_tasks[c]]

\* a step of client c that puts a new list into tasks
live_updates(c) ==
  subscribed_task_ids' = [subscribed_task_ids EXCEPT ![c] =
    useEffect_live_updates(@, Rendered(c), [Rendered(c) EXCEPT !.tasks = store_tasks'[c]])]

InStore(c, t) == \E i \in 1..Len(store_tasks[c]) : store_tasks[c][i].task_id = t
StoreTask(c, t) ==
  store_tasks[c][CHOOSE i \in 1..Len(store_tasks[c]) : store_tasks[c][i].task_id = t]

\* an update of the client is on its way or its response is
Updating(c, via) ==
  \E m \in net : m.kind \in {"PATCH task", "task"} /\ m.client = c /\ m.via = via

\* the form state, filled from a fetched task
FormOf(data) ==
  [loaded |-> TRUE, is_editing |-> FALSE, title |-> data.title,
   due_date |-> data.due_date, priority |-> data.priority, status |-> data.status,
   assignees |-> data.assignees, version |-> data.updated_at, edited |-> {}]

\* the fields of a form the user changed since it was loaded, with their values
Changed(form) == [k \in form.edited |-> form[k]]

\* ============================================================== UV_MainTaskList
\* fetchTasks: the list of GET /tasks goes to the store (a fetch that brings
\* what the store has leaves it as it is)
fetchTasks(c) ==
  /\ list_mounted[c]
  /\ store_tasks[c] # ListTasks
  /\ store_tasks' = [store_tasks EXCEPT ![c] = ListTasks]
  /\ UNCHANGED <<serverVars, net, rid, notificationVars, store_task_detail, modal,
                 detail_form, editing_fields, edits>>
  /\ UNCHANGED creationVars
  /\ lastOp' = [op |-> "fetchTasks", client |-> c]
  /\ UNCHANGED sessionVars
  /\ live_updates(c)

\* handleInlineQuickEdit: the select of a listed task takes another value
handleInlineQuickEdit(c, task_id, field, value) ==
  /\ list_mounted[c]
  /\ modal[c] = NULL
  /\ InStore(c, task_id)
  /\ ~Updating(c, "inlineUpdateMutation")
  /\ StoreTask(c, task_id)[field] # value
  /\ \/ field = "status" /\ value \in TASK_STATUSES
     \/ field = "priority" /\ value \in TASK_PRIORITIES
  /\ rid < MaxRequests
  /\ rid' = rid + 1
  /\ net' = net \cup
       {[kind |-> "PATCH task", via |-> "inlineUpdateMutation", client |-> c,
         rid |-> rid + 1, task |-> task_id,
         body |-> IF field = "status" THEN [status |-> value]
                  ELSE [priority |-> value],
         changed |-> IF field = "status" THEN [status |-> value]
                     ELSE [priority |-> value],
         version |-> StoreTask(c, task_id).updated_at]}
  /\ UNCHANGED <<serverVars, notificationVars, taskViewVars>>
  /\ UNCHANGED creationVars
  /\ lastOp' = [op |-> "handleInlineQuickEdit", client |-> c, task |-> task_id]
  /\ UNCHANGED <<sessionVars, subscribed_task_ids>>

\* inlineUpdateMutation.onSuccess
inlineUpdateDone(m) ==
  /\ m \in net
  /\ m.kind = "task"
  /\ m.via = "inlineUpdateMutation"
  /\ net' = net \ {m}
  /\ SetTasksState(m.client, update_task(TasksState(m.client), m.data))
  /\ UNCHANGED <<serverVars, rid, notificationVars, modal, detail_form,
                 editing_fields, edits>>
  /\ UNCHANGED creationVars
  /\ lastOp' = [op |-> "update_task", client |-> m.client, taskUpdate |-> m.data]
  /\ UNCHANGED sessionVars
  /\ live_updates(m.client)

\* handleTaskClick: open_modal('task_detail', {task_id})
handleTaskClick(c, task_id) ==
  /\ list_mounted[c]
  /\ modal[c] = NULL
  /\ ~task_creation[c]
  /\ InStore(c, task_id)
  /\ modal' = [modal EXCEPT ![c] = task_id]
  /\ UNCHANGED <<serverVars, net, rid, notificationVars, store_tasks,
                 store_task_detail, detail_form, editing_fields, edits>>
  /\ UNCHANGED creationVars
  /\ lastOp' = [op |-> "handleTaskClick", client |-> c, task |-> task_id]
  /\ UNCHANGED <<sessionVars, subscribed_task_ids>>

\* close_modal: the forms of the modal go with it, the data of the task
\* query stays in the query cache
close_modal(c) ==
  /\ modal' = [modal EXCEPT ![c] = NULL]
  /\ detail_form' = [detail_form EXCEPT ![c] = EmptyForm]
  /\ editing_fields' = [editing_fields EXCEPT ![c] = Merge(@, EmptyForm)]
  /\ task_creation' = [task_creation EXCEPT ![c] = FALSE]
  /\ formFields' = [formFields EXCEPT ![c] = EmptyCreate]
  /\ UNCHANGED create_form

\* the Cancel and Close buttons of the modal
CloseClick(c) ==
  /\ modal[c] # NULL
  /\ close_modal(c)
  /\ UNCHANGED <<serverVars, net, rid, notificationVars, store_tasks,
                 store_task_detail, edits>>
  /\ lastOp' = [op |-> "close_modal", client |-> c]
  /\ UNCHANGED <<sessionVars, subscribed_task_ids>>

\* ======================================================== GV_GlobalModalWrapper
\* the effect on [modalType, task_detail_id]: GET /tasks/{id} fills the form
detailFormLoaded(c) ==
  /\ modal[c] # NULL
  /\ ~detail_form[c].loaded
  /\ TaskExists(modal[c])
  /\ detail_form' = [detail_form EXCEPT ![c] = FormOf(GetTask(modal[c]))]
  /\ UNCHANGED <<serverVars, net, rid, notificationVars, store_tasks,
                 store_task_detail, modal, editing_fields, edits>>
  /\ UNCHANGED creationVars
  /\ lastOp' = [op |-> "detailFormLoaded", client |-> c]
  /\ UNCHANGED <<sessionVars, subscribed_task_ids>>

\* the Edit button: set_is_editing(true)
detailEdit(c) ==
  /\ detail_form[c].loaded
  /\ ~detail_form[c].is_editing
  /\ ~Updating(c, "updateTaskMutation")
  /\ detail_form' = [detail_form EXCEPT ![c].is_editing = TRUE]
  /\ UNCHANGED <<serverVars, net, rid, notificationVars, store_tasks,
                 store_task_detail, modal, editing_fields, edits>>
  /\ UNCHANGED creationVars
  /\ lastOp' = [op |-> "detailEdit", client |-> c]
  /\ UNCHANGED <<sessionVars, subscribed_task_ids>>

\* set_detail_title, set_detail_priority, set_detail_status: an input of the
\* form takes a value
detailFieldChange(c, field, value) ==
  /\ detail_form[c].is_editing
  /\ ~Updating(c, "updateTaskMutation")
  /\ detail_form[c][field] # value
  /\ detail_form' = [detail_form EXCEPT ![c] =
       Merge(@, CASE field = "status" ->
                       [status |-> value, edited |-> @.edited \cup {field}]
                  [] field = "priority" ->
                       [priority |-> value, edited |-> @.edited \cup {field}]
                  [] field = "title" ->
                       [title |-> value, edited |-> @.edited \cup {field}])]
  /\ UNCHANGED <<serverVars, net, rid, notificationVars, store_tasks,
                 store_task_detail, modal, editing_fields, edits>>
  /\ UNCHANGED creationVars
  /\ lastOp' = [op |-> "detailFieldChange", client |-> c]
  /\ UNCHANGED <<sessionVars, subscribed_task_ids>>

\* handleTaskDetailSave: no request when the title is empty after trim;
\* otherwise every field of the form goes into the payload
handleTaskDetailSave(c) ==
  /\ modal[c] # NULL
  /\ detail_form[c].is_editing
  /\ ~Updating(c, "updateTaskMutation")
  /\ LET form == detail_form[c]
         valid == trim(form.title) # <<>>
     IN  /\ valid => rid < MaxRequests
         /\ rid' = IF valid THEN rid + 1 ELSE rid
         /\ net' = IF valid
                   THEN net \cup
                     {[kind |-> "PATCH task", via |-> "updateTaskMutation",
                       client |-> c, rid |-> rid + 1, task |-> modal[c],
                       body |-> [task_id |-> modal[c], title |-> trim(form.title),
                                 due_date |-> form.due_date,
                                 priority |-> form.priority,
                                 status |-> form.status,
                                 assignees |-> [i \in 1..Len(form.assignees) |->
                                                  form.assignees[i].user_id]],
                       changed |-> Changed(form), version |-> form.version]}
                   ELSE net
         /\ lastOp' = [op |-> "handleTaskDetailSave", client |-> c,
                       task |-> modal[c], title |-> form.title, sent |-> valid]
  /\ UNCHANGED <<serverVars, notificationVars, taskViewVars>>
  /\ UNCHANGED creationVars
  /\ UNCHANGED <<sessionVars, subscribed_task_ids>>

\* updateTaskMutation.onSuccess: update_task(updatedTask), close_modal()
updateTaskDone(m) ==
  /\ m \in net
  /\ m.kind = "task"
  /\ m.via = "updateTaskMutation"
  /\ net' = net \ {m}
  /\ SetTasksState(m.client, update_task(TasksState(m.client), m.data))
  /\ close_modal(m.client)
  /\ UNCHANGED <<serverVars, rid, notificationVars, edits>>
  /\ lastOp' = [op |-> "update_task", client |-> m.client, taskUpdate |-> m.data]
  /\ UNCHANGED sessionVars
  /\ live_updates(m.client)

\* =========================================================== UV_TaskDetailModal
\* can_edit_comment: the Edit and Delete buttons of a comment show for its
\* author and for managers
can_edit_comment(user, comment) ==
  user # NULL /\ (user = comment.author_user_id \/ users_role[user] = "manager")

\* the ['task_detail', task_id] query, enabled while the task_detail modal is
\* open, succeeds: set_task_detail(data), and the editing fields are set from
\* it unless the user is editing
taskDetailFetched(c) ==
  /\ modal[c] # NULL
  /\ TaskExists(modal[c])
  /\ LET data == GetTask(modal[c])
     IN  /\ editing_fields[c].fetched_task # data \/ ~editing_fields[c].loaded
         /\ store_task_detail' = [store_task_detail EXCEPT ![c] = data]
         /\ editing_fields' = [editing_fields EXCEPT ![c] =
              IF ~@.is_editing
              THEN Merge(FormOf(data), [fetched_task |-> data])
              ELSE [@ EXCEPT !.fetched_task = data]]
  /\ UNCHANGED <<serverVars, net, rid, notificationVars, store_tasks, modal,
                 detail_form, edits>>
  /\ UNCHANGED creationVars
  /\ lastOp' = [op |-> "taskDetailFetched", client |-> c]
  /\ UNCHANGED <<sessionVars, subscribed_task_ids>>

\* the modal shows the task the query has for it
Fetched(c) ==
  /\ modal[c] # NULL
  /\ editing_fields[c].fetched_task.task_id = modal[c]

\* can_edit: a manager or the creator of the task
can_edit(c) ==
  \/ users_role[c] = "manager"
  \/ c = editing_fields[c].fetched_task.creator_user_id

\* start_editing: the editing fields are set from the fetched task
start_editing(c) ==
  /\ Fetched(c)
  /\ ~editing_fields[c].is_editing
  /\ can_edit(c)
  /\ editing_fields' = [editing_fields EXCEPT ![c] =
       Merge(@, [FormOf(@.fetched_task) EXCEPT !.is_editing = TRUE])]
  /\ UNCHANGED <<serverVars, net, rid, notificationVars, store_tasks,
                 store_task_detail, modal, detail_form, edits>>
  /\ UNCHANGED creationVars
  /\ lastOp' = [op |-> "start_editing", client |-> c]
  /\ UNCHANGED <<sessionVars, subscribed_task_ids>>

\* cancel_editing: the editing fields are set from the fetched task again
cancel_editing(c) ==
  /\ Fetched(c)
  /\ editing_fields[c].is_editing
  /\ can_edit(c)
  /\ ~Updating(c, "update_task_mutation")
  /\ editing_fields' = [editing_fields EXCEPT ![c] =
       Merge(@, FormOf(@.fetched_task))]
  /\ UNCHANGED <<serverVars, net, rid, notificationVars, store_tasks,
                 store_task_detail, modal, detail_form, edits>>
  /\ UNCHANGED creationVars
  /\ lastOp' = [op |-> "cancel_editing", client |-> c]
  /\ UNCHANGED <<sessionVars, subscribed_task_ids>>

\* on_edit_field_change(key, value)
on_edit_field_change(c, key, value) ==
  /\ Fetched(c)
  /\ editing_fields[c].loaded
  /\ editing_fields[c].is_editing
  /\ editing_fields[c][key] # value
  /\ editing_fields' = [editing_fields EXCEPT ![c] =
       Merge(@, CASE key = "status" ->
                       [status |-> value, edited |-> @.edited \cup {key}]
                  [] key = "priority" ->
                       [priority |-> value, edited |-> @.edited \cup {key}]
                  [] key = "title" ->
                       [title |-> value, edited |-> @.edited \cup {key}])]
  /\ UNCHANGED <<serverVars, net, rid, notificationVars, store_tasks,
                 store_task_detail, modal, detail_form, edits>>
  /\ UNCHANGED creationVars
  /\ lastOp' = [op |-> "on_edit_field_change", client |-> c]
  /\ UNCHANGED <<sessionVars, subscribed_task_ids>>

\* save_edits: no request when the trimmed title is empty; otherwise every
\* editing field goes into the payload
save_edits(c) ==
  /\ Fetched(c)
  /\ can_edit(c)
  /\ editing_fields[c].loaded
  /\ editing_fields[c].is_editing
  /\ ~Updating(c, "update_task_mutation")
  /\ LET form == editing_fields[c]
         valid == trim(form.title) # <<>>
     IN  /\ valid => rid < MaxRequests
         /\ rid' = IF valid THEN rid + 1 ELSE rid
         /\ net' = IF valid
                   THEN net \cup
                     {[kind |-> "PATCH task", via |-> "update_task_mutation",
                       client |-> c, rid |-> rid + 1, task |-> modal[c],
                       body |-> [title |-> trim(form.title),
                                 due_date |-> form.due_date,
                                 priority |-> form.priority,
                                 status |-> form.status,
                                 assignees |-> [i \in 1..Len(form.assignees) |->
                                                  form.assignees[i].user_id]],
                       changed |-> Changed(form), version |-> form.version]}
                   ELSE net
         /\ lastOp' = [op |-> "save_edits", client |-> c, task |-> modal[c],
                       title |-> form.title, sent |-> valid]
  /\ UNCHANGED <<serverVars, notificationVars, taskViewVars>>
  /\ UNCHANGED creationVars
  /\ UNCHANGED <<sessionVars, subscribed_task_ids>>

\* update_task_mutation.onSuccess: set_task_detail(data), set_is_editing(false),
\* set_editing_fields from data
update_task_done(m) ==
  /\ m \in net
  /\ m.kind = "task"
  /\ m.via = "update_task_mutation"
  /\ net' = net \ {m}
  /\ store_task_detail' = [store_task_detail EXCEPT ![m.client] = m.data]
  /\ editing_fields' =
       IF modal[m.client] # NULL
       THEN [editing_fields EXCEPT ![m.client] = Merge(@, FormOf(m.data))]
       ELSE editing_fields
  /\ UNCHANGED <<serverVars, rid, notificationVars, store_tasks, modal,
                 detail_form, edits>>
  /\ UNCHANGED creationVars
  /\ lastOp' = [op |-> "set_task_detail", client |-> m.client]
  /\ UNCHANGED <<sessionVars, subscribed_task_ids>>

\* ============================================================ PATCH /tasks/{id}
\* the update of a client is applied and the task, as it is then, is the response
ServeUpdateTask(m) ==
  /\ m \in net
  /\ m.kind = "PATCH task"
  /\ UpdateTask(m.task, m.client, m.body)
  /\ net' = (net \ {m}) \cup
       {[kind |-> "task", via |-> m.via, client |-> m.client, rid |-> m.rid,
         data |-> TaskOf(tasks', task_assignees', m.task)]}
  /\ edits' = [edits EXCEPT ![m.client] =
       [task |-> m.task, changed |-> m.changed, version |-> m.version,
        applied_at |-> now']]
  /\ UNCHANGED <<rid, notificationVars, store_tasks, store_task_detail, modal,
                 detail_form, editing_fields, creationVars>>
  /\ UNCHANGED <<sessionVars, subscribed_task_ids>>

\* ================================================== client store: add_task
add_task(state, task) ==
  [tasks |-> <<task>> \o SelectSeq(state.tasks, LAMBDA t : t.task_id # task.task_id),
   task_detail |-> state.task_detail]

\* a task creation of the client is on its way or its response is
Creating(c, via) ==
  \E m \in net : m.kind \in {"POST task", "created"} /\ m.client = c /\ m.via = via

\* ======================================================== task_creation modal
\* handleNewTaskClick: open_modal('task_creation', {}); GV_GlobalModalWrapper
\* resets its create_* state and UV_TaskCreationModal mounts with an empty form
handleNewTaskClick(c) ==
  /\ modal[c] = NULL
  /\ ~task_creation[c]
  /\ task_creation' = [task_creation EXCEPT ![c] = TRUE]
  /\ create_form' = [create_form EXCEPT ![c] = EmptyCreate]
  /\ formFields' = [formFields EXCEPT ![c] = EmptyCreate]
  /\ UNCHANGED <<serverVars, net, rid, notificationVars, taskViewVars>>
  /\ lastOp' = [op |-> "handleNewTaskClick", client |-> c]
  /\ UNCHANGED <<sessionVars, subscribed_task_ids>>

\* setCreate_title, setCreate_priority of GV_GlobalModalWrapper
setCreate(c, field, value) ==
  /\ task_creation[c]
  /\ ~Creating(c, "GV_GlobalModalWrapper")
  /\ create_form[c][field] # value
  /\ create_form' = [create_form EXCEPT ![c] =
       Merge(@, IF field = "title" THEN [title |-> value] ELSE [priority |-> value])]
  /\ UNCHANGED <<serverVars, net, rid, notificationVars, taskViewVars,
                 task_creation, formFields>>
  /\ lastOp' = [op |-> "setCreate", client |-> c]
  /\ UNCHANGED <<sessionVars, subscribed_task_ids>>

\* handleCreateSave: no request when the title is empty after trim; the
\* payload carries the trimmed title, the due date and the priority
handleCreateSave(c) ==
  /\ task_creation[c]
  /\ ~Creating(c, "GV_GlobalModalWrapper")
  /\ LET form == create_form[c]
         valid == trim(form.title) # <<>>
     IN  /\ valid => rid < MaxRequests
         /\ rid' = IF valid THEN rid + 1 ELSE rid
         /\ net' = IF valid
                   THEN net \cup
                     {[kind |-> "POST task", via |-> "GV_GlobalModalWrapper",
                       client |-> c, rid |-> rid + 1,
                       body |-> [title |-> trim(form.title),
                                 due_date |-> form.due_date,
                                 priority |-> form.priority]]}
                   ELSE net
         /\ lastOp' = [op |-> "handleCreateSave", client |-> c,
                       title |-> form.title, sent |-> valid]
  /\ UNCHANGED <<serverVars, notificationVars, taskViewVars, creationVars>>
  /\ UNCHANGED <<sessionVars, subscribed_task_ids>>

\* handleInputChange of UV_TaskCreationModal, for title and priority
handleInputChange(c, name, value) ==
  /\ task_creation[c]
  /\ ~Creating(c, "UV_TaskCreationModal")
  /\ formFields[c][name] # value
  /\ name = "priority" => value \in TASK_PRIORITIES
  /\ formFields' = [formFields EXCEPT ![c] =
       Merge(@, IF name = "title" THEN [title |-> value] ELSE [priority |-> value])]
  /\ UNCHANGED <<serverVars, net, rid, notificationVars, taskViewVars,
                 task_creation, create_form>>
  /\ lastOp' = [op |-> "handleInputChange", client |-> c]
  /\ UNCHANGED <<sessionVars, subscribed_task_ids>>

\* validateForm without the trim
validateForm_untrimmed(fields) == fields.title # <<>>

\* validateForm: the title is required
validateForm(fields) == trim(fields.title) # <<>>

\* handleSave of UV_TaskCreationModal: no request unless validateForm()
handleSave(c) ==
  /\ task_creation[c]
  /\ ~Creating(c, "UV_TaskCreationModal")
  /\ LET form == formFields[c]
         valid == validateForm(form)
     IN  /\ valid => rid < MaxRequests
         /\ rid' = IF valid THEN rid + 1 ELSE rid
         /\ net' = IF valid
                   THEN net \cup
                     {[kind |-> "POST task", via |-> "UV_TaskCreationModal",
                       client |-> c, rid |-> rid + 1,
                       body |-> [title |-> trim(form.title),
                                 due_date |-> form.due_date,
                                 priority |-> form.priority]]}
                   ELSE net
         /\ lastOp' = [op |-> "handleSave", client |-> c,
                       title |-> form.title, sent |-> valid]
  /\ UNCHANGED <<serverVars, notificationVars, taskViewVars, creationVars>>
  /\ UNCHANGED <<sessionVars, subscribed_task_ids>>

\* POST /tasks of a client: the task is created and is the response
ServeCreateTask(m) ==
  /\ m \in net
  /\ m.kind = "POST task"
  /\ CreateTask(m.client, m.body)
  /\ net' = (net \ {m}) \cup
       {[kind |-> "created", via |-> m.via, client |-> m.client, rid |-> m.rid,
         data |-> TaskOf(tasks', task_assignees', ids'.task)]}
  /\ UNCHANGED <<rid, notificationVars, taskViewVars, creationVars>>
  /\ UNCHANGED <<sessionVars, subscribed_task_ids>>

\* createTaskMutation.onSuccess, of both forms: add_task(createdTask),
\* close_modal()
createTaskDone(m) ==
  /\ m \in net
  /\ m.kind = "created"
  /\ net' = net \ {m}
  /\ SetTasksState(m.client, add_task(TasksState(m.client), m.data))
  /\ close_modal(m.client)
  /\ UNCHANGED <<serverVars, rid, notificationVars, edits>>
  /\ lastOp' = [op |-> "add_task", client |-> m.client, task |-> m.data.task_id]
  /\ UNCHANGED sessionVars
  /\ live_updates(m.client)

\* ============================================================ UV_MainTaskList
\* set_connected of the store, and the effect on [tasks, connected] after it
set_connected(c, value) ==
  /\ connected[c] # value
  /\ connected' = [connected EXCEPT ![c] = value]
  /\ subscribed_task_ids' = [subscribed_task_ids EXCEPT ![c] =
       useEffect_live_updates(@, Rendered(c), [Rendered(c) EXCEPT !.connected = value])]
  /\ UNCHANGED <<serverVars, net, rid, notificationVars, taskViewVars, creationVars,
                 session, store_comments, bulk_selection, list_mounted>>
  /\ lastOp' = [op |-> "set_connected", client |-> c, connected |-> value]

\* the view mounts: its effects run for the first time
mount(c) ==
  /\ ~list_mounted[c]
  /\ list_mounted' = [list_mounted EXCEPT ![c] = TRUE]
  /\ subscribed_task_ids' = [subscribed_task_ids EXCEPT ![c] =
       useEffect_live_updates(@, Rendered(c), [Rendered(c) EXCEPT !.mounted = TRUE])]
  /\ UNCHANGED <<serverVars, net, rid, notificationVars, taskViewVars, creationVars,
                 session, store_comments, bulk_selection, connected>>
  /\ lastOp' = [op |-> "mount", client |-> c]

\* the view unmounts: the cleanups of its effects run
unmount(c) ==
  /\ list_mounted[c]
  /\ list_mounted' = [list_mounted EXCEPT ![c] = FALSE]
  /\ subscribed_task_ids' = [subscribed_task_ids EXCEPT ![c] =
       useEffect_live_updates(@, Rendered(c), [Rendered(c) EXCEPT !.mounted = FALSE])]
  /\ UNCHANGED <<serverVars, net, rid, notificationVars, taskViewVars, creationVars,
                 session, store_comments, bulk_selection, connected>>
  /\ lastOp' = [op |-> "unmount", client |-> c]

\* handleBulkSelectChange: the checkbox of a listed task, which shows checked
\* when the task is selected
handleBulkSelectChange(c, task_id, checked) ==
  /\ list_mounted[c]
  /\ InStore(c, task_id)
  /\ checked = ~includes(bulk_selection[c], task_id)
  /\ bulk_selection' = [bulk_selection EXCEPT ![c] =
       IF checked THEN Append(@, task_id)
       ELSE SelectSeq(@, LAMBDA id : id # task_id)]
  /\ UNCHANGED <<serverVars, net, rid, notificationVars, taskViewVars, creationVars,
                 session, store_comments, connected, list_mounted,
                 subscribed_task_ids>>
  /\ lastOp' = [op |-> "handleBulkSelectChange", client |-> c, task |-> task_id,
                checked |-> checked]

\* handleSelectAllChange: the checkbox in the header of the list
handleSelectAllChange(c, checked) ==
  /\ list_mounted[c]
  /\ bulk_selection' = [bulk_selection EXCEPT ![c] =
       IF checked
       THEN [i \in 1..Len(store_tasks[c]) |-> store_tasks[c][i].task_id]
       ELSE <<>>]
  /\ bulk_selection'[c] # bulk_selection[c]
  /\ UNCHANGED <<serverVars, net, rid, notificationVars, taskViewVars, creationVars,
                 session, store_comments, connected, list_mounted,
                 subscribed_task_ids>>
  /\ lastOp' = [op |-> "handleSelectAllChange", client |-> c, checked |-> checked]

\* a bulk delete of the client is on its way or its response is
Deleting(c) ==
  \E m \in net : m.kind \in {"POST bulk-delete", "bulk deleted"} /\ m.client = c

\* handleBulkDeleteConfirm: POST /api/tasks/bulk-delete with the selection
handleBulkDeleteConfirm(c) ==
  /\ list_mounted[c]
  /\ ~Deleting(c)
  /\ bulk_selection[c] # <<>>
  /\ rid < MaxRequests
  /\ rid' = rid + 1
  /\ net' = net \cup {[kind |-> "POST bulk-delete", client |-> c, rid |-> rid + 1,
                       task_ids |-> bulk_selection[c]]}
  /\ UNCHANGED <<serverVars, notificationVars, taskViewVars, creationVars,
                 sessionVars, subscribed_task_ids>>
  /\ lastOp' = [op |-> "handleBulkDeleteConfirm", client |-> c,
                task_ids |-> bulk_selection[c],
                listed |-> {store_tasks[c][i].task_id : i \in 1..Len(store_tasks[c])}]

\* BulkDelete(taskIds): Delete per id, and the ids that are not there skipped
RECURSIVE cascade_each(_, _, _)
cascade_each(cascade(_, _), rows, task_ids) ==
  IF task_ids = <<>> THEN rows
  ELSE cascade_each(cascade, cascade(rows, Head(task_ids)), Tail(task_ids))

BulkDelete(task_ids) ==
  /\ now < MaxNow
  /\ tasks' = {r \in tasks : ~includes(task_ids, r.task_id)}
  /\ task_assignees' = cascade_each(cascade_assignees, task_assignees, task_ids)
  /\ task_comments' = cascade_each(cascade_comments, task_comments, task_ids)
  /\ task_reminders' = cascade_each(cascade_reminders, task_reminders, task_ids)
  /\ notifications' = cascade_each(cascade_notifications, notifications, task_ids)
  /\ now' = now + 1
  /\ UNCHANGED <<ids, outbox, socketVars, authVars>>
  /\ lastOp' = [op |-> "BulkDelete", task_ids |-> task_ids,
                count |-> Cardinality({r \in tasks : includes(task_ids, r.task_id)})]

\* POST /tasks/bulk-delete of a client
ServeBulkDelete(m) ==
  /\ m \in net
  /\ m.kind = "POST bulk-delete"
  /\ BulkDelete(m.task_ids)
  /\ net' = (net \ {m}) \cup {[kind |-> "bulk deleted", client |-> m.client,
                              rid |-> m.rid]}
  /\ UNCHANGED <<rid, notificationVars, taskViewVars, creationVars, sessionVars,
                 subscribed_task_ids>>

\* remove_tasks_by_ids of the store
remove_tasks_by_ids(state, task_ids) ==
  [tasks |-> SelectSeq(state.tasks, LAMBDA t : ~includes(task_ids, t.task_id)),
   bulk_selection |-> SelectSeq(state.bulk_selection,
                                LAMBDA id : ~includes(task_ids, id)),
   task_detail |->
     IF state.task_detail.task_id # NULL
          /\ includes(task_ids, state.task_detail.task_id)
     THEN NoTask ELSE state.task_detail]

\* bulkDeleteMutation.onSuccess: remove_tasks_by_ids(bulk_selection),
\* set_bulk_selection([])
bulkDeleteDone(m) ==
  /\ m \in net
  /\ m.kind = "bulk deleted"
  /\ net' = net \ {m}
  /\ LET c == m.client
         removed == remove_tasks_by_ids(
                      [tasks |-> store_tasks[c], bulk_selection |-> bulk_selection[c],
                       task_detail |-> store_task_detail[c]], bulk_selection[c])
     IN  /\ store_tasks' = [store_tasks EXCEPT ![c] = removed.tasks]
         /\ store_task_detail' = [store_task_detail EXCEPT ![c] = removed.task_detail]
         /\ bulk_selection' = [bulk_selection EXCEPT ![c] = <<>>]
         /\ live_updates(c)
         /\ lastOp' = [op |-> "remove_tasks_by_ids", client |-> c,
                       task_ids |-> bulk_selection[c]]
  /\ UNCHANGED <<serverVars, rid, notificationVars, modal, detail_form,
                 editing_fields, edits, creationVars, session, store_comments,
                 connected, list_mounted>>

\* ================================================== client store: the session
\* modal: null
NoModal == [type |-> "null"]

\* the fields of the store that hold data of the user, as one record
StoreState(c) ==
  [user |-> session[c].user, token |-> session[c].token,
   is_authenticated |-> session[c].is_authenticated,
   tasks |-> store_tasks[c], task_detail |-> store_task_detail[c],
   bulk_selection |-> bulk_selection[c], comments |-> store_comments[c],
   notifications |-> store_notifications[c],
   unread_count |-> store_unread_count[c],
   modal |-> IF modal[c] # NULL THEN [type |-> "task_detail", task_id |-> modal[c]]
             ELSE IF task_creation[c] THEN [type |-> "task_creation"]
             ELSE NoModal,
   connected |-> connected[c], subscribed_task_ids |-> subscribed_task_ids[c]]

\* the state the store is created with
InitialState ==
  [user |-> NULL, token |-> "", is_authenticated |-> FALSE,
   tasks |-> <<>>, task_detail |-> NoTask, bulk_selection |-> <<>>,
   comments |-> <<>>, notifications |-> <<>>, unread_count |-> 0,
   modal |-> NoModal, connected |-> FALSE, subscribed_task_ids |-> <<>>]

\* a logout that resets the session and leaves the notifications
logout_session_only(state) ==
  Merge(state, [user |-> NULL, token |-> "", is_authenticated |-> FALSE,
                tasks |-> <<>>, task_detail |-> NoTask, bulk_selection |-> <<>>,
                comments |-> <<>>, modal |-> NoModal, connected |-> FALSE,
                subscribed_task_ids |-> <<>>])

\* logout of the store: set({...}) with the fields it names
logout(state) ==
  Merge(state, [user |-> NULL, token |-> "", is_authenticated |-> FALSE,
                tasks |-> <<>>, task_detail |-> NoTask, bulk_selection |-> <<>>,
                comments |-> <<>>, notifications |-> <<>>, unread_count |-> 0,
                modal |-> NoModal, connected |-> FALSE,
                subscribed_task_ids |-> <<>>])

\* login_mutation.onSuccess of UV_Login: set_token, set_user,
\* set_is_authenticated(true), and the way to /tasks, where the list mounts
login_success(c) ==
  /\ ~session[c].is_authenticated
  /\ session' = [session EXCEPT ![c] =
       [user |-> c, token |-> generate_jwt([user_id |-> c, role |-> users_role[c]]),
        is_authenticated |-> TRUE]]
  /\ list_mounted' = [list_mounted EXCEPT ![c] = TRUE]
  /\ subscribed_task_ids' = [subscribed_task_ids EXCEPT ![c] =
       IF list_mounted[c] THEN @
       ELSE useEffect_live_updates(@, Rendered(c),
                                   [Rendered(c) EXCEPT !.mounted = TRUE])]
  /\ UNCHANGED <<serverVars, net, rid, notificationVars, taskViewVars, creationVars,
                 store_comments, bulk_selection, connected>>
  /\ lastOp' = [op |-> "login_success", client |-> c]

\* the comments query of UV_TaskDetailModal: GET /tasks/{id}/comments, and
\* onSuccess set_comments(data)
comments_fetched(c) ==
  /\ modal[c] # NULL
  /\ TaskExists(modal[c])
  /\ store_comments[c] # CommentsOf(task_comments, modal[c])
  /\ store_comments' = [store_comments EXCEPT ![c] =
       CommentsOf(task_comments, modal[c])]
  /\ UNCHANGED <<serverVars, net, rid, notificationVars, taskViewVars, creationVars,
                 session, bulk_selection, connected, list_mounted,
                 subscribed_task_ids>>
  /\ lastOp' = [op |-> "set_comments", client |-> c]

\* logoutUser of GV_TopNavigation: logout() of the store, the effects of the
\* mounted views on what it changed, and the way to /login
logoutUser(c) ==
  /\ session[c].user # NULL
  /\ LET state == logout(StoreState(c))
         rendered == [mounted |-> list_mounted[c], connected |-> state.connected,
                      tasks |-> state.tasks]
     IN  /\ session' = [session EXCEPT ![c] =
              [user |-> state.user, token |-> state.token,
               is_authenticated |-> state.is_authenticated]]
         /\ store_tasks' = [store_tasks EXCEPT ![c] = state.tasks]
         /\ store_task_detail' = [store_task_detail EXCEPT ![c] = state.task_detail]
         /\ bulk_selection' = [bulk_selection EXCEPT ![c] = state.bulk_selection]
         /\ store_comments' = [store_comments EXCEPT ![c] = state.comments]
         /\ store_notifications' =
              [store_notifications EXCEPT ![c] = state.notifications]
         /\ store_unread_count' = [store_unread_count EXCEPT ![c] = state.unread_count]
         /\ IF state.modal = NoModal
            THEN close_modal(c)
            ELSE UNCHANGED <<modal, detail_form, editing_fields, creationVars>>
         /\ connected' = [connected EXCEPT ![c] = state.connected]
         /\ subscribed_task_ids' = [subscribed_task_ids EXCEPT ![c] =
              useEffect_live_updates(
                useEffect_live_updates(state.subscribed_task_ids, Rendered(c), rendered),
                rendered, [rendered EXCEPT !.mounted = FALSE])]
  /\ list_mounted' = [list_mounted EXCEPT ![c] = FALSE]
  /\ UNCHANGED <<serverVars, net, rid, isFetching, edits>>
  /\ lastOp' = [op |-> "logout", client |-> c, had |-> StoreState(c)]

\* the engines' operations, called on their own
TaskCreate(creator, req) == CreateTask(creator, req) /\ UNCHANGED clientVars
TaskUpdate(t, actor, req) == UpdateTask(t, actor, req) /\ UNCHANGED clientVars
TaskCreateRejected(creator, req) ==
  CreateTaskRejected(creator, req) /\ UNCHANGED clientVars
TaskUpdateRejected(t, actor, req) ==
  UpdateTaskRejected(t, actor, req) /\ UNCHANGED clientVars
TaskDelete(t) == DeleteTask(t) /\ UNCHANGED clientVars
CommentAdd(t, author, body, parent) == AddComment(t, author, body, parent) /\ UNCHANGED clientVars
CommentAddRejected(t, author, body, parent) ==
  AddCommentRejected(t, author, body, parent) /\ UNCHANGED clientVars

CommentEdit(c, actor, newBody) ==
  EditComment(c, actor, newBody) /\ UNCHANGED clientVars

CommentRefused(c, actor, of) ==
  CommentForbidden(c, actor, of) /\ UNCHANGED clientVars

CommentDelete(c, actor) == DeleteComment(c, actor) /\ UNCHANGED clientVars

\* ------------------------------------------------------------------ inputs
Title == <<"a">>
Body == <<"b">>
Edited == <<"e">>

AssignCreates ==
  {[title |-> Title, assignees |-> <<2>>],
   [title |-> Title, assignees |-> <<2, 2>>]}

AssignUpdates ==
  {[status |-> "Done"],
   [assignees |-> <<2>>],
   [assignees |-> <<3, 3>>],
   [assignees |-> <<>>],
   [status |-> "In Progress", assignees |-> <<2, 3>>]}

\* task creation and update, by a manager and a regular user
NextAssign ==
  \/ \E creator \in {1, 2}, req \in AssignCreates : TaskCreate(creator, req)
  \/ \E t \in TaskIds, actor \in {1, 2}, req \in AssignUpdates : TaskUpdate(t, actor, req)

SpecAssign == Init /\ [][NextAssign]_vars

CascadeCreates ==
  {[title |-> Title],
   [title |-> Title, assignees |-> <<3, 3>>],
   [title |-> Title, assignees |-> <<2, 3>>, due_date |-> 3,
    reminder_preset |-> "1 day"]}

\* tasks with comments on them, and their deletion
NextCascade ==
  \/ \E creator \in Users, req \in CascadeCreates : TaskCreate(creator, req)
  \/ \E t \in TaskIds, author \in Users, parent \in {NULL} \cup CommentIds :
       CommentAdd(t, author, Body, parent)
  \/ \E t \in TaskIds, author \in Users, parent \in CommentIds :
       CommentAddRejected(t, author, Body, parent)
  \/ \E c \in CommentIds, actor \in Users : CommentEdit(c, actor, Edited)
  \/ \E c \in CommentIds, actor \in Users, of \in {"EditComment", "DeleteComment"} :
       CommentRefused(c, actor, of)
  \/ \E c \in CommentIds, actor \in Users : CommentDelete(c, actor)
  \/ \E t \in TaskIds : TaskDelete(t)

SpecCascade == Init /\ [][NextCascade]_vars

NotifyCreates == {[title |-> Title, assignees |-> <<2>>]}

\* the notifications of user 2, pushed to and fetched by that user's client
NextNotify ==
  \/ \E req \in NotifyCreates : TaskCreate(1, req)
  \/ \E t \in TaskIds : TaskDelete(t)
  \/ \E n \in outbox, reaches \in BOOLEAN : EmitPush(n, reaches)
  \/ \E m \in net : PushReceived(m)
  \/ Refetch(2)
  \/ \E m \in net : ServeListNotifications(m)
  \/ \E m \in net : FetchDone(m)
  \/ \E id \in 1..MaxNotifications : ClickNotification(2, id)
  \/ \E m \in net : ServeMarkRead(m)
  \/ \E m \in net : MarkReadDone(m)
  \/ ClickClearAll(2)
  \/ \E m \in net : ServeMarkAllRead(m)
  \/ \E m \in net : MarkAllReadDone(m)

SpecNotify == Init /\ [][NextNotify]_vars

EditCreates == {[title |-> Title]}

\* two clients that list the tasks: client 1 opens them in the task_detail
\* modal and edits them in the form of GV_GlobalModalWrapper, client 2 edits
\* them in the list
NextEdit ==
  \/ \E req \in EditCreates : TaskCreate(1, req)
  \/ \E c \in Clients : store_tasks[c] = <<>> /\ fetchTasks(c)
  \/ handleInlineQuickEdit(2, 1, "status", "Done")
  \/ handleInlineQuickEdit(2, 1, "priority", "High")
  \/ \E m \in net : inlineUpdateDone(m)
  \/ handleTaskClick(1, 1)
  \/ detailFormLoaded(1)
  \/ taskDetailFetched(1)
  \/ detailEdit(1)
  \/ detailFieldChange(1, "status", "Done")
  \/ detailFieldChange(1, "priority", "High")
  \/ handleTaskDetailSave(1)
  \/ \E m \in net : updateTaskDone(m)
  \/ \E m \in net : ServeUpdateTask(m)

SpecEdit == Init /\ [][NextEdit]_vars

\* the same, with client 1 editing in the form of UV_TaskDetailModal
NextDetail ==
  \/ \E req \in EditCreates : ids.task = 0 /\ TaskCreate(1, req)
  \/ \E c \in Clients : store_tasks[c] = <<>> /\ fetchTasks(c)
  \/ handleInlineQuickEdit(2, 1, "status", "Done")
  \/ handleInlineQuickEdit(2, 1, "priority", "High")
  \/ \E m \in net : inlineUpdateDone(m)
  \/ handleTaskClick(1, 1)
  \/ CloseClick(1)
  \/ taskDetailFetched(1)
  \/ start_editing(1)
  \/ cancel_editing(1)
  \/ on_edit_field_change(1, "status", "Done")
  \/ on_edit_field_change(1, "priority", "High")
  \/ save_edits(1)
  \/ \E m \in net : update_task_done(m)
  \/ \E m \in net : ServeUpdateTask(m)

SpecDetail == Init /\ [][NextDetail]_vars

\* titles as they are typed: empty, blank, and with a space to trim
Blank == <<" ">>
Padded == <<"a", " ">>

\* requests of POST /tasks the server takes, with and without a status
CreateRequests ==
  {[title |-> Title], [title |-> Title, status |-> "Done"],
   [title |-> Padded, status |-> "In Progress", priority |-> "High"]}

\* requests of POST /tasks and PATCH /tasks/{id} with no title to speak of
BlankRequests ==
  {[title |-> <<>>], [title |-> Blank, status |-> "Done"]}

\* one client that creates tasks in the two forms of the task_creation modal
\* and edits them in the two forms of the task_detail modal, and requests that
\* reach the server from elsewhere
NextCreate ==
  \/ \E req \in CreateRequests : ids.task = 0 /\ TaskCreate(2, req)
  \/ \E req \in BlankRequests \cup {[status |-> "Done"]} :
       rid = 0 /\ TaskCreateRejected(2, req)
  \/ TaskUpdate(1, 2, [status |-> "Done"])
  \/ \E t \in TaskIds, req \in BlankRequests :
       rid = 0 /\ TaskUpdateRejected(t, 2, req)
  \/ handleNewTaskClick(1)
  \/ setCreate(1, "title", Padded)
  \/ handleCreateSave(1)
  \/ \E title \in {Blank, Padded} : handleInputChange(1, "title", title)
  \/ handleSave(1)
  \/ \E m \in net : ServeCreateTask(m)
  \/ \E m \in net : createTaskDone(m)
  \/ handleTaskClick(1, 1)
  \/ detailFormLoaded(1)
  \/ taskDetailFetched(1)
  \/ detailEdit(1)
  \/ detailFieldChange(1, "title", Blank)
  \/ handleTaskDetailSave(1)
  \/ \E m \in net : updateTaskDone(m)
  \/ start_editing(1)
  \/ on_edit_field_change(1, "title", Blank)
  \/ save_edits(1)
  \/ \E m \in net : update_task_done(m)
  \/ \E m \in net : ServeUpdateTask(m)

SpecCreate == Init /\ [][NextCreate]_vars

\* connections that come with every kind of token, and go
NextSocket ==
  \/ \E id \in SocketIds, token \in Tokens : connection(id, token)
  \/ \E id \in SocketIds : disconnect(id)

SpecSocket == Init /\ [][NextSocket]_vars

\* the notification center of user 2, mounted, with every push dropped on its
\* way: notifications reach the client by its fetches alone
NextPull ==
  \/ \E req \in NotifyCreates : TaskCreate(1, req)
  \/ \E n \in outbox : EmitPush(n, FALSE)
  \/ IntervalRefetch(2)
  \/ \E m \in net : ServeListNotifications(m)
  \/ \E m \in net : FetchDone(m)
  \/ \E id \in 1..MaxNotifications : ClickNotification(2, id)
  \/ \E m \in net : ServeMarkRead(m)
  \/ \E m \in net : MarkReadDone(m)

\* the interval keeps firing and every fetch is answered and applied
PullFairness ==
  /\ WF_vars(IntervalRefetch(2))
  /\ WF_vars(\E m \in net : ServeListNotifications(m))
  /\ WF_vars(\E m \in net : FetchDone(m))

SpecPull == Init /\ [][NextPull]_vars /\ PullFairness

\* bodies of POST /api/auth/register: a new address in two spellings, the
\* address of a seed user in upper case, a body that asks for a role, and one
\* with no name
RegisterBodies ==
  {[email |-> <<"d">>, password |-> "p", name |-> "n"],
   [email |-> <<"D">>, password |-> "q", name |-> "n", role |-> "manager"],
   [email |-> <<"A">>, password |-> "p", name |-> "n"],
   [email |-> <<"d">>, password |-> "p"]}

\* the users a request can reach the manager guard with: none, the payload of
\* a token the server signed, and payloads with each role the guard knows and
\* one it does not
GuardUsers ==
  {NoReqUser} \cup
  {[attached |-> TRUE, user_id |-> jwt.user_id, role |-> jwt.role] : jwt \in jwts} \cup
  {[attached |-> TRUE, user_id |-> 1, role |-> role] :
     role \in {"regular", "manager", "admin", "guest"}}

\* bodies of POST /api/auth/password-reset: the token that can be used with
\* two passwords, the token that expires, a token no row has, and a body with
\* no password
ResetBodies ==
  {[token |-> "t1", password |-> "p"],
   [token |-> "t1", password |-> "q"],
   [token |-> "t0", password |-> "p"],
   [token |-> "tx", password |-> "p"],
   [token |-> "t1"]}

\* bodies of POST /api/auth/login: a user who registered, a seed user with
\* the password of a reset, a wrong password, and a body with no password
LoginBodies ==
  {[email |-> <<"D">>, password |-> "p"],
   [email |-> <<"b">>, password |-> "q"],
   [email |-> <<"d">>, password |-> "x"],
   [email |-> <<"d">>]}

\* bodies of PATCH /api/users/me: a name with a role and a user_id beside it,
\* a role alone, the address of a seed user, a new address, a password, and
\* settings that are whole and that are not
PatchBodies ==
  {[name |-> "m", role |-> "manager", user_id |-> 1],
   [role |-> "manager"],
   [email |-> <<"A">>, role |-> "admin"],
   [email |-> <<"E">>],
   [password |-> "z"],
   [notification_settings |-> [in_app |-> FALSE, email |-> TRUE]],
   [notification_settings |-> [in_app |-> FALSE]]}

\* the auth and profile routes, with requests that overlap
NextAuth ==
  \/ \E req_user \in GuardUsers : manager_guard(req_user)
  \/ \E r \in RequestIds, body \in RegisterBodies : register(r, body)
  \/ \E r \in RequestIds : register_insert(r)
  \/ \E r \in RequestIds, body \in ResetBodies : password_reset(r, body)
  \/ \E r \in RequestIds : reset_update_user(r)
  \/ \E r \in RequestIds : reset_mark_used(r)

SpecAuth == Init /\ [][NextAuth]_vars

\* the routes that write users: one user registers, a seed user resets the
\* password, both log in, and the profile updates of the users with a token
\* overlap with all of it
NextProfile ==
  \/ register(1, [email |-> <<"D">>, password |-> "p", name |-> "n",
                  role |-> "manager"])
  \/ register_insert(1)
  \/ password_reset(1, [token |-> "t1", password |-> "q"])
  \/ reset_update_user(1)
  \/ reset_mark_used(1)
  \/ \E body \in LoginBodies : login(body)
  \/ \E jwt \in jwts, body \in PatchBodies : patch_me(2, jwt, body)
  \/ patch_update(2)

SpecProfile == Init /\ [][NextProfile]_vars

\* the main task list of client 1: its socket connects and drops, the view
\* mounts and unmounts, tasks come and go on the server and in the store
NextList ==
  \/ TaskCreate(2, [title |-> Title])
  \/ \E t \in TaskIds : TaskDelete(t)
  \/ fetchTasks(1)
  \/ \E value \in BOOLEAN : set_connected(1, value)
  \/ mount(1)
  \/ unmount(1)
  \/ handleNewTaskClick(1)
  \/ setCreate(1, "title", Title)
  \/ handleCreateSave(1)
  \/ \E m \in net : ServeCreateTask(m)
  \/ \E m \in net : createTaskDone(m)
  \/ \E t \in TaskIds, checked \in BOOLEAN : handleBulkSelectChange(1, t, checked)
  \/ \E checked \in BOOLEAN : handleSelectAllChange(1, checked)
  \/ handleBulkDeleteConfirm(1)
  \/ \E m \in net : ServeBulkDelete(m)
  \/ \E m \in net : bulkDeleteDone(m)

SpecList == Init /\ [][NextList]_vars

\* a session of client 2: the user logs in, data of every kind reaches the
\* store, and the user logs out
NextSession ==
  \/ login_success(2)
  \/ ids.task = 0 /\ TaskCreate(1, [title |-> Title, assignees |-> <<2>>])
  \/ ids.comment = 0 /\ CommentAdd(1, 1, Body, NULL)
  \/ \E n \in outbox : EmitPush(n, TRUE)
  \/ \E m \in net : PushReceived(m)
  \/ fetchTasks(2)
  \/ \E checked \in BOOLEAN : handleBulkSelectChange(2, 1, checked)
  \/ \E value \in BOOLEAN : set_connected(2, value)
  \/ handleTaskClick(2, 1)
  \/ taskDetailFetched(2)
  \/ comments_fetched(2)
  \/ handleNewTaskClick(2)
  \/ logoutUser(2)

SpecSession == Init /\ [][NextSession]_vars

\* ------------------------------------------------------------------ claims
\* C1: at most one task_assignees row per (task, user) pair, after any
\* sequence of task creations and updates.
C1_OneAssignmentPerPair ==
  \A i, j \in 1..Len(task_assignees) :
    (/\ task_assignees[i].task_id = task_assignees[j].task_id
     /\ task_assignees[i].user_id = task_assignees[j].user_id) => i = j

\* an update names a user who was assigned by an earlier request
C1_Witness ==
  /\ lastOp.op = "UpdateTask"
  /\ "assignees" \in DOMAIN lastOp.req
  /\ \E i \in 1..Len(task_assignees) :
       /\ task_assignees[i].task_id = lastOp.task
       /\ task_assignees[i].user_id \in Range(lastOp.req.assignees)
       /\ task_assignees[i].assigned_at < now

\* C2: deleting a task removes its task_assignees, task_comments and
\* task_reminders rows, leaves the rows of every other task as they were, and
\* keeps every notification, those that refer to the task or to one of its
\* comments included.
C2_DeleteTaskCascade ==
  [][lastOp'.op = "DeleteTask" =>
       LET t == lastOp'.task
       IN  /\ \A r \in tasks' : r.task_id # t
           /\ task_assignees' = SelectSeq(task_assignees, LAMBDA r : r.task_id # t)
           /\ task_comments' = {c \in task_comments : c.task_id # t}
           /\ task_reminders' = {r \in task_reminders : r.task_id # t}
           /\ notifications' = notifications]_vars

\* a task that had an assignee, a comment and a reminder is gone, its
\* notifications are there, and another task still has its assignee
C2_Witness ==
  /\ lastOp.op = "DeleteTask"
  /\ \E n \in notifications : n.type = "assignment" /\ n.reference_id = lastOp.task
  /\ \E n \in notifications : n.type = "comment" /\ ~CommentExists(n.reference_id)
  /\ ids.reminder > 0 /\ task_reminders = {}
  /\ \E i \in 1..Len(task_assignees) : task_assignees[i].task_id # lastOp.task

\* C3: deleting a comment removes that comment only; each comment that
\* referred to it stays, with parent_comment_id null and nothing else changed.
C3_DeleteCommentOrphansReplies ==
  [][lastOp'.op = "DeleteComment" =>
       LET c == lastOp'.comment
       IN  task_comments' =
             {IF k.parent_comment_id = c
              THEN [k EXCEPT !.parent_comment_id = NULL] ELSE k
              : k \in {d \in task_comments : d.comment_id # c}}]_vars

\* the deleted comment had a reply, which is still there
C3_Witness ==
  /\ lastOp.op = "DeleteComment"
  /\ lastOp.replies # {}
  /\ \A r \in lastOp.replies :
       CommentExists(r) /\ CommentRow(r).parent_comment_id = NULL

\* the status_update notifications a step creates
StatusOf(rows, t) == (CHOOSE r \in rows : r.task_id = t).status

\* C4: an update that changes the status creates exactly one status_update
\* notification for each assignee (as the update leaves them) other than the
\* actor, and none for anyone else.
C4_StatusUpdateNotifications ==
  [][(lastOp'.op = "UpdateTask"
        /\ StatusOf(tasks', lastOp'.task) # StatusOf(tasks, lastOp'.task)) =>
       LET t == lastOp'.task
           created == {n \in notifications' \ notifications : n.type = "status_update"}
           to == AssigneesOf(task_assignees', t) \ {lastOp'.actor}
       IN  /\ \A u \in to : Cardinality({n \in created : n.user_id = u}) = 1
           /\ \A n \in created : n.user_id \in to /\ n.reference_id = t]_vars

\* an assignee changed the status and another assignee was told
C4_Witness ==
  /\ lastOp.op = "UpdateTask"
  /\ lastOp.actor \in AssigneesOf(task_assignees, lastOp.task)
  /\ \E n \in notifications :
       /\ n.type = "status_update" /\ n.created_at = now
       /\ n.user_id # lastOp.actor
  /\ \A n \in notifications :
       n.type = "status_update" => n.user_id # lastOp.actor

\* C5: a new comment creates exactly one comment notification for the task
\* creator and for each assignee, the author excepted, and none for anyone else.
C5_CommentNotifications ==
  [][lastOp'.op = "AddComment" =>
       LET t == lastOp'.task
           created == notifications' \ notifications
           to == ({TaskRow(t).creator_user_id} \cup AssigneesOf(task_assignees, t))
                   \ {lastOp'.actor}
       IN  /\ \A u \in to : Cardinality({n \in created : n.user_id = u}) = 1
           /\ \A n \in created :
                /\ n.user_id \in to
                /\ n.type = "comment"
                /\ n.reference_id = lastOp'.comment]_vars

\* creator 1, assignees 2 and 3, author 2: users 1 and 3 are told, 2 is not
C5_Witness ==
  /\ lastOp.op = "AddComment"
  /\ lastOp.actor = 2
  /\ TaskExists(lastOp.task)
  /\ TaskRow(lastOp.task).creator_user_id = 1
  /\ AssigneesOf(task_assignees, lastOp.task) = {2, 3}
  /\ {n.user_id : n \in {m \in notifications : m.type = "comment"}} = {1, 3}

\* C6: a notification_created event, waiting to be emitted or on its way to a
\* client, is of a notification that is in the notifications table, and a list
\* fetch of its user returns it.
C6_PersistedBeforePush ==
  /\ \A e \in outbox :
       \E n \in notifications :
         n.notification_id = e.notification_id /\ n.user_id = e.user_id
  /\ \A m \in net :
       m.kind = "notification_created" =>
         LET list == ListNotifications(notifications, m.client)
         IN  \E i \in 1..Len(list) :
               list[i].notification_id = m.notification.notification_id

\* a push was emitted towards a client whose store does not have the
\* notification yet
C6_Witness ==
  /\ lastOp.op = "EmitPush"
  /\ \E m \in net :
       /\ m.kind = "notification_created"
       /\ m.notification.notification_id = lastOp.notification
       /\ ~IsShownRead(m.client, lastOp.notification)
       /\ ~IsShownUnread(m.client, lastOp.notification)

\* C7: in a client's store a notification goes from unread to read only, and
\* its message, type and reference_id never change.
C7_ReadIsMonotonic ==
  [][\A c \in Clients :
       \A i \in 1..Len(store_notifications[c]) :
         \A j \in 1..Len(store_notifications'[c]) :
           LET old == store_notifications[c][i]
               new == store_notifications'[c][j]
           IN  new.notification_id = old.notification_id =>
                 /\ old.is_read => new.is_read
                 /\ new.message = old.message
                 /\ new.type = old.type
                 /\ new.reference_id = old.reference_id]_vars

\* C8: marking a notification read twice is marking it once, in the store and
\* in the notifications table; marking a read notification changes neither
\* the notifications nor the unread count.
C8_MarkReadIdempotent ==
  \A c \in Clients :
    \A id \in 1..MaxNotifications :
      LET state == NotificationsState(c)
          once == mark_as_read(state, id)
          rows == MarkRead(notifications, c, id)
      IN  /\ mark_as_read(once, id) = once
          /\ IsShownRead(c, id) => once = state
          /\ MarkRead(rows, c, id) = rows
          /\ (\E n \in notifications :
                n.notification_id = id /\ n.user_id = c /\ n.is_read)
               => rows = notifications

\* markAsReadMutation succeeded for a notification the store had as read
C8_Witness ==
  /\ lastOp.op = "MarkReadDone"
  /\ lastOp.was_read
  /\ IsShownRead(lastOp.client, lastOp.notification)
  /\ \E i \in 1..Len(store_notifications[lastOp.client]) :
       ~store_notifications[lastOp.client][i].is_read

\* new is old with the keys of u merged into it and nothing else changed
MergedOnly(old, new, u) ==
  /\ DOMAIN new = DOMAIN old \cup DOMAIN u
  /\ \A k \in DOMAIN u : new[k] = u[k]
  /\ \A k \in DOMAIN old \ DOMAIN u : new[k] = old[k]

\* C9: an update gives the fields named in the request their requested
\* values and leaves every other field of the task as it was (updated_at,
\* which every update refreshes, aside), the assignees too unless the request
\* names them, and every other task and its assignees unchanged. In the client
\* store, update_task merges the keys of the update into the task with its
\* task_id and into task_detail when it has that task_id; the other keys of
\* both, the other tasks and the stores of other clients stay as they were.
C9_UpdateChangesSuppliedFieldsOnly ==
  [][/\ lastOp'.op = "UpdateTask" =>
          LET t == lastOp'.task
              req == lastOp'.req
              old == TaskRow(t)
              new == CHOOSE r \in tasks' : r.task_id = t
          IN  /\ DOMAIN new = DOMAIN old
              /\ \A k \in DOMAIN old :
                    /\ k \in DOMAIN req => new[k] = req[k]
                    /\ k \notin DOMAIN req \cup {"updated_at"} => new[k] = old[k]
              /\ {r \in tasks' : r.task_id # t} = {r \in tasks : r.task_id # t}
              /\ "assignees" \notin DOMAIN req => task_assignees' = task_assignees
              /\ SelectSeq(task_assignees', LAMBDA r : r.task_id # t)
                    = SelectSeq(task_assignees, LAMBDA r : r.task_id # t)
     /\ lastOp'.op = "update_task" =>
          LET c == lastOp'.client
              u == lastOp'.taskUpdate
          IN  /\ Len(store_tasks'[c]) = Len(store_tasks[c])
              /\ \A i \in 1..Len(store_tasks[c]) :
                    IF store_tasks[c][i].task_id = u.task_id
                    THEN MergedOnly(store_tasks[c][i], store_tasks'[c][i], u)
                    ELSE store_tasks'[c][i] = store_tasks[c][i]
              /\ IF store_task_detail[c].task_id = u.task_id
                 THEN MergedOnly(store_task_detail[c], store_task_detail'[c], u)
                 ELSE store_task_detail'[c] = store_task_detail[c]
              /\ \A d \in Clients \ {c} :
                    /\ store_tasks'[d] = store_tasks[d]
                    /\ store_task_detail'[d] = store_task_detail[d]]_vars

\* update_task merged an updated task into a task_detail that has comments,
\* which the update does not name, with another task in the list
C9_Witness ==
  /\ lastOp.op = "update_task"
  /\ store_task_detail[lastOp.client].task_id = lastOp.taskUpdate.task_id
  /\ "comments" \in DOMAIN store_task_detail[lastOp.client]
  /\ "comments" \notin DOMAIN lastOp.taskUpdate
  /\ store_task_detail[lastOp.client].status = "Done"
  /\ \E i \in 1..Len(store_tasks[lastOp.client]) :
       store_tasks[lastOp.client][i].task_id # lastOp.taskUpdate.task_id

\* C10: when the last updates of two clients to a task changed different
\* fields, each client having loaded the task before the update of the other
\* was applied, the task holds the changes of both.
C10_BothChangesKept ==
  \A a, b \in Clients :
    (/\ a # b
     /\ edits[a].task # NULL
     /\ edits[b].task = edits[a].task
     /\ TaskExists(edits[a].task)
     /\ DOMAIN edits[a].changed # {}
     /\ DOMAIN edits[b].changed # {}
     /\ DOMAIN edits[a].changed \cap DOMAIN edits[b].changed = {}
     /\ edits[a].version < edits[b].applied_at
     /\ edits[b].version < edits[a].applied_at
     /\ TaskRow(edits[a].task).updated_at
          \in {edits[a].applied_at, edits[b].applied_at})
    => \A k \in DOMAIN edits[a].changed :
         TaskRow(edits[a].task)[k] = edits[a].changed[k]

\* C11: every task CreateTask produces has status "To Do", whatever status the
\* request carried, and a task has another status only from a later
\* UpdateTask of that task.
C11_CreatedTasksAreToDo ==
  [][/\ lastOp'.op = "CreateTask" =>
          \E row \in tasks' :
            /\ row.task_id = lastOp'.task
            /\ row.status = "To Do"
            /\ tasks' = tasks \cup {row}
            /\ row \notin tasks
     /\ \A row \in tasks' :
          row.status # "To Do" =>
            \/ \E old \in tasks : old.task_id = row.task_id /\ old.status = row.status
            \/ /\ lastOp'.op = "UpdateTask"
               /\ lastOp'.task = row.task_id
               /\ \E old \in tasks : old.task_id = row.task_id]_vars

\* a request with status "Done" created a task, which is "To Do"
C11_Witness ==
  /\ lastOp.op = "CreateTask"
  /\ "status" \in DOMAIN lastOp.req
  /\ lastOp.req.status = "Done"
  /\ StatusOf(tasks, lastOp.task) = "To Do"

\* C12: the title of a task is never empty after trim. A CreateTask or
\* UpdateTask request with a blank title ends in a ValidationError and leaves
\* the tables as they were, and the forms of the client send no create or
\* update request while their title is blank.
C12_TitleNeverBlank ==
  [][/\ \A row \in tasks' : trim(row.title) # <<>>
     /\ lastOp'.op = "ValidationError" => UNCHANGED serverVars
     /\ lastOp'.op = "CreateTask" => "title" \in DOMAIN lastOp'.req
     /\ (lastOp'.op \in {"CreateTask", "UpdateTask"} /\ "title" \in DOMAIN lastOp'.req)
          => trim(lastOp'.req.title) # <<>>
     /\ (/\ lastOp'.op \in {"handleCreateSave", "handleSave",
                            "handleTaskDetailSave", "save_edits"}
         /\ trim(lastOp'.title) = <<>>)
          => net' = net /\ ~lastOp'.sent
     /\ \A m \in net' :
          (m.kind \in {"POST task", "PATCH task"} /\ "title" \in DOMAIN m.body)
            => trim(m.body.title) # <<>>]_vars

\* an update of a task there is was refused for its blank title
C12_Witness ==
  /\ lastOp.op = "ValidationError"
  /\ lastOp.of = "UpdateTask"
  /\ TaskExists(lastOp.task)
  /\ lastOp.req.title = Blank

\* C13: every comment with a parent_comment_id has it point at a comment
\* there is, of the same task. AddComment with a parent that is missing or on
\* another task ends in a ValidationError and creates no comment.
C13_ParentOnSameTask ==
  [][/\ \A c \in task_comments' :
          c.parent_comment_id # NULL =>
            \E parent \in task_comments' :
              /\ parent.comment_id = c.parent_comment_id
              /\ parent.task_id = c.task_id
     /\ (lastOp'.op = "ValidationError" /\ lastOp'.of = "AddComment")
          => UNCHANGED <<task_comments, ids, notifications>>
     /\ lastOp'.op = "AddComment" =>
          LET c == CHOOSE r \in task_comments' : r.comment_id = lastOp'.comment
          IN  c.parent_comment_id # NULL =>
                \E parent \in task_comments :
                  /\ parent.comment_id = c.parent_comment_id
                  /\ parent.task_id = c.task_id]_vars

\* a reply to a comment of another task was refused
C13_Witness ==
  /\ lastOp.op = "ValidationError"
  /\ lastOp.of = "AddComment"
  /\ CommentExists(lastOp.parent)
  /\ CommentRow(lastOp.parent).task_id # lastOp.task
  /\ \E c \in task_comments : c.parent_comment_id # NULL

\* C14: EditComment and DeleteComment succeed only for the author of the
\* comment or a manager; for anyone else they end in a ForbiddenError and the
\* comment keeps its body, its updated_at and its place in the table. The
\* client shows the Edit and Delete buttons to the users the server lets
\* through.
C14_AuthorOrManager ==
  [][/\ lastOp'.op \in {"EditComment", "DeleteComment"} =>
          \E c \in task_comments :
            /\ c.comment_id = lastOp'.comment
            /\ \/ c.author_user_id = lastOp'.actor
               \/ users_role[lastOp'.actor] = "manager"
     /\ lastOp'.op = "ForbiddenError" =>
          /\ UNCHANGED serverVars
          /\ \E c \in task_comments :
               /\ c.comment_id = lastOp'.comment
               /\ c.author_user_id # lastOp'.actor
               /\ users_role[lastOp'.actor] # "manager"
     /\ \A c \in task_comments :
          (\A d \in task_comments' :
             ~(/\ d.comment_id = c.comment_id
               /\ d.body = c.body
               /\ d.updated_at = c.updated_at))
            => \/ /\ lastOp'.op \in {"EditComment", "DeleteComment"}
                  /\ lastOp'.comment = c.comment_id
               \/ /\ lastOp'.op = "DeleteTask"
                  /\ lastOp'.task = c.task_id
     /\ \A c \in task_comments', user \in Users :
          can_edit_comment(user, c) <=>
            (c.author_user_id = user \/ users_role[user] = "manager")]_vars

\* a regular user who is not the author was refused the edit of a comment
C14_Witness ==
  /\ lastOp.op = "ForbiddenError"
  /\ lastOp.of = "EditComment"
  /\ CommentExists(lastOp.comment)
  /\ CommentRow(lastOp.comment).author_user_id # lastOp.actor
  /\ \E c \in task_comments : c.body = Edited /\ c.updated_at # NULL

\* C15: when one of several connections of a user closes, the user's other
\* connections stay in the registry and in the room of the user: only the
\* socket id that closed is removed, and the entries, rooms and sockets of
\* other users are untouched.
C15_DisconnectLeavesOthers ==
  [][lastOp'.op = "disconnect" =>
       LET id == lastOp'.socket
           u == lastOp'.user
       IN  /\ sockets[id].open /\ sockets[id].user = u
           /\ \A v \in Users \ {u} :
                /\ v \in DOMAIN userSocketsMap' <=> v \in DOMAIN userSocketsMap
                /\ v \in DOMAIN userSocketsMap =>
                     userSocketsMap'[v] = userSocketsMap[v]
                /\ rooms'[v] = rooms[v]
           /\ rooms'[u] = rooms[u] \ {id}
           /\ userSocketsMap[u] \ {id} # {} =>
                /\ u \in DOMAIN userSocketsMap'
                /\ userSocketsMap'[u] = userSocketsMap[u] \ {id}
           /\ \A other \in SocketIds \ {id} : sockets'[other] = sockets[other]]_vars

\* one of two connections of a user closed while another user is connected
C15_Witness ==
  /\ lastOp.op = "disconnect"
  /\ lastOp.user \in DOMAIN userSocketsMap
  /\ userSocketsMap[lastOp.user] # {}
  /\ rooms[lastOp.user] = userSocketsMap[lastOp.user]
  /\ \E v \in DOMAIN userSocketsMap : v # lastOp.user

\* C16: when the last connection of a user closes, the entry of the user
\* leaves the registry; a later connection of that user puts the entry and the
\* room membership back, through any number of such rounds, in any order with
\* the connections of others. The registry holds exactly the users with an
\* open connection, with their open socket ids.
C16_EntryFollowsConnections ==
  [][/\ lastOp'.op = "disconnect" =>
          (userSocketsMap[lastOp'.user] \ {lastOp'.socket} = {}
             => lastOp'.user \notin DOMAIN userSocketsMap')
     /\ lastOp'.op = "connection" =>
          /\ lastOp'.user \in DOMAIN userSocketsMap'
          /\ lastOp'.socket \in userSocketsMap'[lastOp'.user]
          /\ lastOp'.socket \in rooms'[lastOp'.user]
     /\ \A u \in Users :
          LET open == {id \in SocketIds : sockets'[id].open /\ sockets'[id].user = u}
          IN  /\ u \in DOMAIN userSocketsMap' <=> open # {}
              /\ u \in DOMAIN userSocketsMap' => userSocketsMap'[u] = open
              /\ rooms'[u] = open]_vars

\* the last connection of a user closed and took the entry of the user along,
\* with another user still connected
C16_Witness ==
  /\ lastOp.op = "disconnect"
  /\ lastOp.user \notin DOMAIN userSocketsMap
  /\ rooms[lastOp.user] = {}
  /\ DOMAIN userSocketsMap # {}

\* C17: only authenticated connections are in a user room or in the registry,
\* and only in the room of the user of their token: a connection with no token
\* or with a token that does not verify is refused and is never in either.
C17_OnlyAuthenticatedJoin ==
  [][/\ \A u \in Users : \A id \in rooms'[u] :
          /\ sockets'[id].open
          /\ sockets'[id].token.present
          /\ sockets'[id].token.valid
          /\ sockets'[id].token.user_id = u
     /\ \A u \in DOMAIN userSocketsMap' : \A id \in userSocketsMap'[u] :
          /\ sockets'[id].token.valid
          /\ sockets'[id].token.user_id = u
     /\ lastOp'.op = "connection" =>
          lastOp'.token.present /\ lastOp'.token.valid
     /\ (lastOp'.op \in {"connection", "connect_error"}
         /\ ~(lastOp'.token.present /\ lastOp'.token.valid)) =>
          /\ lastOp'.op = "connect_error"
          /\ UNCHANGED socketVars]_vars

\* a connection with a token that does not verify was refused while the user
\* it names has a room with members
C17_Witness ==
  /\ lastOp.op = "connect_error"
  /\ lastOp.token.present
  /\ ~lastOp.token.valid
  /\ rooms[lastOp.token.user_id] # {}
  /\ ~sockets[lastOp.socket].open

\* C18: re-assigning is idempotent: an UpdateTask whose assignees name a user
\* who is assigned already goes through, and that user has one row after it as
\* before it, with the assigned_at it had.
C18_ReassignKeepsRow ==
  [][(lastOp'.op = "UpdateTask" /\ "assignees" \in DOMAIN lastOp'.req) =>
       \A i \in 1..Len(task_assignees) :
         (/\ task_assignees[i].task_id = lastOp'.task
          /\ task_assignees[i].user_id \in Range(lastOp'.req.assignees))
           => /\ Cardinality({j \in 1..Len(task_assignees') :
                                /\ task_assignees'[j].task_id = lastOp'.task
                                /\ task_assignees'[j].user_id =
                                     task_assignees[i].user_id}) = 1
              /\ \E j \in 1..Len(task_assignees') :
                   task_assignees'[j] = task_assignees[i]]_vars

\* an update named a user assigned by an earlier request next to a new one:
\* the row of the first is the one from then, the row of the second is new
C18_Witness ==
  /\ lastOp.op = "UpdateTask"
  /\ "assignees" \in DOMAIN lastOp.req
  /\ \E i, j \in 1..Len(task_assignees) :
       /\ task_assignees[i].task_id = lastOp.task
       /\ task_assignees[j].task_id = lastOp.task
       /\ task_assignees[i].user_id \in Range(lastOp.req.assignees)
       /\ task_assignees[i].assigned_at < now
       /\ task_assignees[j].assigned_at = now

\* C19: MarkAllRead(userId) sets is_read on every unread notification of that
\* user and on no notification of another user, and returns the number of that
\* user's notifications that were unread just before; once the client has
\* applied it, no notification is read in its store and unread on the server.
C19_MarkAllReadAgrees ==
  [][/\ lastOp'.op = "ServeMarkAllRead" =>
          LET user == lastOp'.client
              unread == {n \in notifications : n.user_id = user /\ ~n.is_read}
          IN  /\ notifications' =
                   {IF n \in unread THEN [n EXCEPT !.is_read = TRUE] ELSE n
                      : n \in notifications}
              /\ \A n \in notifications' : n.user_id = user => n.is_read
              /\ \E m \in net' :
                   /\ m.kind = "all read"
                   /\ m.client = user
                   /\ m.count = Cardinality(unread)
     /\ lastOp'.op = "MarkAllReadDone" =>
          LET c == lastOp'.client
          IN  \A i \in 1..Len(store_notifications'[c]) :
                store_notifications'[c][i].is_read =>
                  \A n \in notifications' :
                    n.notification_id = store_notifications'[c][i].notification_id
                      => n.is_read]_vars

\* a notification with this id is in the notifications table for the user
Persisted(user, id) ==
  \E n \in notifications : n.notification_id = id /\ n.user_id = user

\* the list of the client's store has a notification with this id
Listed(c, id) ==
  \E i \in 1..Len(store_notifications[c]) :
    store_notifications[c][i].notification_id = id

\* C20: a notification persisted for a user whose push was dropped is in the
\* list of that user's client in the end, by the fetches of the mounted
\* notification center alone, as long as they keep being answered.
C20_PullRecoversDroppedPush ==
  \A id \in 1..MaxNotifications : Persisted(2, id) ~> Listed(2, id)

\* a fetch brought a notification whose push had been dropped
C20_Witness ==
  /\ lastOp.op = "FetchDone"
  /\ \E id \in 1..MaxNotifications :
       /\ Persisted(2, id)
       /\ Listed(2, id)
       /\ \A n \in outbox : n.notification_id # id

\* C21: a registration with an email that is registered already, in whatever
\* case it is spelled, is answered with 400 or 409 and creates no user; of two
\* registrations of one new email that overlap, one creates the user and the
\* other gets that answer and not a 500.
C21_DuplicateEmailIsConflict ==
  [][lastOp'.op = "register" =>
       /\ lastOp'.registered =>
            /\ lastOp'.status \in {400, 409}
            /\ users' = users
       /\ lastOp'.status # 500
       /\ \A a, b \in users' : a.email = b.email => a = b]_vars

\* C22: the manager guard lets through exactly the users whose role is
\* manager: it calls next() for them, answers 403 for regular users and for
\* every other role, and 401 when no user is attached to the request.
C22_GuardAdmitsManagersOnly ==
  lastOp.op = "require_manager_role" =>
    /\ lastOp.result = "next" <=> (lastOp.user.attached /\ lastOp.user.role = "manager")
    /\ lastOp.result = "401" <=> ~lastOp.user.attached
    /\ lastOp.result = "403" <=> (lastOp.user.attached /\ lastOp.user.role # "manager")

\* C23: while the main task list of a client is mounted and its socket is
\* connected, subscribed_task_ids holds the task_id of every task in the
\* store's tasks, each once, and no other id; while the view is unmounted or
\* the socket is not connected, no task id is subscribed.
C23_SubscriptionsTrackList ==
  \A c \in Clients :
    LET listed == {store_tasks[c][i].task_id : i \in 1..Len(store_tasks[c])}
        current == subscribed_task_ids[c]
    IN  IF list_mounted[c] /\ connected[c]
        THEN /\ Range(current) = listed
             /\ \A i, j \in 1..Len(current) : current[i] = current[j] => i = j
        ELSE current = <<>>

\* a re-fetch with the socket connected leaves task 2 listed and subscribed,
\* after task 1 left the list
C23_Witness ==
  /\ lastOp.op = "fetchTasks"
  /\ list_mounted[1] /\ connected[1]
  /\ ~TaskExists(1)
  /\ subscribed_task_ids[1] = <<2>>

\* C24: in every state the store's unread_count is the number of entries of
\* its notifications that are not read, whatever sequence of
\* set_notifications, add_notification, mark_as_read and mark_all_as_read
\* led there.
C24_UnreadCountIsCount ==
  \A c \in Clients : store_unread_count[c] = Unread(store_notifications[c])

\* a client whose store holds a read and an unread notification after
\* mark_as_read ran
C24_Witness ==
  /\ lastOp.op = "MarkReadDone"
  /\ \E c \in Clients :
       /\ store_unread_count[c] = 1
       /\ \E i \in 1..Len(store_notifications[c]) : store_notifications[c][i].is_read

C26_RegistryIsLiveSockets ==
  /\ DOMAIN userSocketsMap \subseteq Users
  /\ \A u \in Users :
       LET live == {id \in SocketIds : sockets[id].open /\ sockets[id].user = u}
       IN  /\ u \in DOMAIN userSocketsMap <=> live # {}
           /\ u \in DOMAIN userSocketsMap =>
                userSocketsMap[u] = live /\ userSocketsMap[u] # {}

\* a user disconnected one of two sockets and keeps the other, while another
\* user has a live socket too
C26_Witness ==
  /\ lastOp.op = "disconnect"
  /\ lastOp.user \in DOMAIN userSocketsMap
  /\ Cardinality(userSocketsMap[lastOp.user]) = 1
  /\ \E u \in DOMAIN userSocketsMap \ {lastOp.user} :
       Cardinality(userSocketsMap[u]) = 1

\* C27: no step of register, login, password reset or PATCH /api/users/me
\* changes the role of a user: every user stays, with its role; a user that a
\* registration creates has the role regular; and a profile update leaves
\* every row but the requester's as it was and changes of the requester's row
\* only name, email, password_hash, notification_settings and updated_at,
\* whatever other fields the body carries.
C27_RolesNeverChange ==
  [][/\ \A old \in users :
          \E new \in users' : new.user_id = old.user_id /\ new.role = old.role
     /\ \A new \in users' :
          (\A old \in users : old.user_id # new.user_id) => new.role = "regular"
     /\ lastOp'.op = "patch_me" =>
          \A old \in users :
            \E new \in users' :
              /\ new.user_id = old.user_id
              /\ old.user_id # lastOp'.user => new = old
              /\ \A k \in DOMAIN old \ {"name", "email", "password_hash",
                                        "notification_settings", "updated_at"} :
                   new[k] = old[k]]_vars

\* a regular user who registered asking for the manager role updated the
\* profile with a body that names a role and another user_id: the name is
\* the new one and the role is regular
C27_Witness ==
  /\ lastOp.op = "patch_me"
  /\ lastOp.status = 200
  /\ {"role", "user_id"} \subseteq DOMAIN lastOp.body
  /\ lastOp.user > Cardinality(Users)
  /\ UserRow(lastOp.user).name = lastOp.body.name
  /\ UserRow(lastOp.user).role = "regular"

\* C28: in every state of a client, bulk_selection holds only task_ids of
\* tasks that are in the store's tasks, so that a confirmed bulk delete sends
\* no id of a task that is not listed.
C28_SelectionIsListed ==
  /\ \A c \in Clients :
       \A i \in 1..Len(bulk_selection[c]) : InStore(c, bulk_selection[c][i])
  /\ lastOp.op = "handleBulkDeleteConfirm" =>
       Range(lastOp.task_ids) \subseteq lastOp.listed

\* C29: add_notification is idempotent per notification_id: a push whose
\* notification_id is in the store already leaves notifications and
\* unread_count of the store as they were, and no list of a store has two
\* entries with the same notification_id.
C29_AddNotificationIdempotent ==
  [][/\ lastOp'.op = "PushReceived" =>
          LET c == lastOp'.client
          IN  (\E i \in 1..Len(store_notifications[c]) :
                 store_notifications[c][i].notification_id = lastOp'.notification)
              => /\ store_notifications'[c] = store_notifications[c]
                 /\ store_unread_count'[c] = store_unread_count[c]
     /\ \A c \in Clients :
          \A i, j \in 1..Len(store_notifications'[c]) :
            store_notifications'[c][i].notification_id
              = store_notifications'[c][j].notification_id => i = j]_vars

\* a push arrived for a notification the store had fetched and marked read
\* before: the entry is still the read one
C29_Witness ==
  /\ lastOp.op = "PushReceived"
  /\ \E i \in 1..Len(store_notifications[lastOp.client]) :
       /\ store_notifications[lastOp.client][i].notification_id = lastOp.notification
       /\ store_notifications[lastOp.client][i].is_read

\* C30: from any state of a client store, logout leaves the store as it was
\* created: token empty, user null, is_authenticated false, tasks,
\* task_detail, comments, notifications, bulk_selection and
\* subscribed_task_ids empty, unread_count 0, modal null and connected false.
C30_LogoutRestoresInitialState ==
  lastOp.op = "logout" => StoreState(lastOp.client) = InitialState

\* the user logged out of a store that held tasks, a selection, an open task
\* with its comments, an unread notification and subscriptions on a
\* connected socket
C30_Witness ==
  /\ lastOp.op = "logout"
  /\ lastOp.had.is_authenticated
  /\ lastOp.had.tasks # <<>>
  /\ lastOp.had.task_detail # NoTask
  /\ lastOp.had.bulk_selection # <<>>
  /\ lastOp.had.comments # <<>>
  /\ lastOp.had.unread_count > 0
  /\ lastOp.had.modal # NoModal
  /\ lastOp.had.connected
  /\ lastOp.had.subscribed_task_ids # <<>>

====
